---- MODULE Spec2Model ----
(***************************************************************************)
(* A model of embeddedgo/fs.  This part models ramfs (the latest revision  *)
(* of ramfs.go, lines 520-943, with file.go and the mutex-guarded dir      *)
(* handle): the node tree with its singly linked child lists, the quota    *)
(* counters, path lookup, and the handle operations.  Every operation is   *)
(* run by a thread and is split at the points where it releases every lock *)
(* it holds, so that the interleavings of concurrent calls are the ones    *)
(* the code allows.                                                        *)
(***************************************************************************)
EXTENDS Integers, Sequences, FiniteSets, TLC

(***************************************************************************)
(* Bounds of the model.                                                    *)
(***************************************************************************)
MaxOps == 4        \* calls started in one behaviour of Spec (one thread)
MaxOpsC == 4       \* calls started in one behaviour of SpecC (two threads)
MaxNodes == 3      \* nodes ever created besides the root
MaxHandles == 2    \* handles ever returned by OpenWithFinalizer
MaxWriteLen == 2   \* length of the short buffer passed to Write
LongWriteLen == 17 \* length of the long buffer passed to Write
MaxDevHandles == 2 \* handles ever returned by termfs and semihostfs
MaxOpsH == 5       \* calls started in one behaviour of SpecH with one thread
MaxOpsH2 == 3      \* calls started in one behaviour of SpecH with two threads
MaxOpsD == 4       \* calls started in one behaviour of SpecD (two threads)
MaxOpsW == 6       \* calls started in one behaviour of SpecW (two threads)
MaxOpsS == 2       \* calls started in one behaviour of SpecS
MaxOpsL == 3       \* calls started in one behaviour of SpecL
MaxLightIn == 2    \* keys typed on the terminal of the LightFS
MaxKeys == 4       \* keys typed on the terminal of the termfs FS
MaxOpsT == 3       \* calls of a behaviour of SpecT
MaxOpsE == 5       \* calls of a behaviour of SpecE
MaxLine == 3       \* capacity of the line buffer in SpecE
MaxOpsG == 3       \* calls of a behaviour of SpecG
MaxOpsA == 6       \* calls of a behaviour of SpecA
MaxOpsY == 6       \* calls of a behaviour of SpecY
MaxKeysY == 6      \* keys typed on the terminal in SpecY
MaxOpsK == 5       \* calls of a behaviour of SpecK
MaxKeysK == 2      \* keys typed on the terminal in SpecK
MaxOpsP == 5       \* calls of a behaviour of SpecP
MaxOpsX == 4       \* calls of a behaviour of SpecX
MaxOpsQ == 4       \* calls of a behaviour of SpecQ
MaxOpsV == 4       \* calls of a behaviour of SpecV

(***************************************************************************)
(* Program constants: ramfs.go lines 551-565, for a 64-bit target.         *)
(***************************************************************************)
ptrSize == 8
intSize == ptrSize
strSize == 2 * ptrSize
sliSize == 3 * ptrSize
lockSize == 6 * 4
nodeSize == ptrSize + strSize + ptrSize + lockSize + ptrSize + sliSize + 8 + intSize
emptyFileSize == nodeSize
dirSize == nodeSize

(***************************************************************************)
(* Inputs.                                                                 *)
(***************************************************************************)
NIL == 0
Root == 1
NodeIds == 1..(MaxNodes + 1)
HandleIds == 1..MaxHandles
Threads == {1, 2}

O_RDONLY == 0
O_WRONLY == 1
O_RDWR == 2

\* an open flag: the access mode and the O_CREAT, O_EXCL, O_TRUNC, O_APPEND bits
Flag(rdwr, creat, excl, trunc, append) ==
    [rdwr |-> rdwr, creat |-> creat, excl |-> excl, trunc |-> trunc, append |-> append]

Flags ==
    { Flag(O_RDONLY, FALSE, FALSE, FALSE, FALSE),
      Flag(O_RDONLY, TRUE, FALSE, FALSE, FALSE),
      Flag(O_RDONLY, TRUE, TRUE, FALSE, FALSE),
      Flag(O_WRONLY, FALSE, FALSE, FALSE, FALSE),
      Flag(O_WRONLY, TRUE, FALSE, FALSE, FALSE),
      Flag(O_WRONLY, FALSE, FALSE, TRUE, FALSE),
      Flag(O_WRONLY, FALSE, FALSE, FALSE, TRUE) }

\* a path is the sequence of its segments; "." alone is the root
DotPath == <<".">>
BadPath == <<"">>
TreePaths == { <<"a">>, <<"b">>, <<"a", "b">> }
Paths == TreePaths \cup {DotPath, BadPath}

\* the quotas a file system is constructed with
MaxSizes == { emptyFileSize + 8, 3 * emptyFileSize + 16 }

\* the buffers passed to Write: k bytes b+1, b+2, ...; an empty, a short and
\* a long one that outgrows the first capacity step
WriteBuf(b, k) == [i \in 1..k |-> b + i]
WriteBufs == { WriteBuf(10, 0), WriteBuf(10, MaxWriteLen), WriteBuf(30, LongWriteLen) }
ReadLens == {1, 4}

(***************************************************************************)
(* io/fs.ValidPath, on the segments of a path.                             *)
(***************************************************************************)
ValidPath(path) ==
    /\ Len(path) > 0
    /\ \/ path = DotPath
       \/ \A i \in 1..Len(path) : path[i] \notin {"", ".", ".."}

Front(s) == SubSeq(s, 1, Len(s) - 1)
Last(s) == s[Len(s)]
Min(a, b) == IF a < b THEN a ELSE b

(***************************************************************************)
(* Nodes.  data is the slice n.data: buf is its backing array (Len(buf) is *)
(* cap(n.data)) and len its length; a nil slice has an empty backing array.*)
(***************************************************************************)
NoNode ==
    [alloc |-> FALSE, isFile |-> FALSE, name |-> "", next |-> NIL, list |-> NIL,
     buf |-> <<>>, len |-> 0]

RootNode == [NoNode EXCEPT !.alloc = TRUE, !.name = "."]

NewNode(isFile, name) == [NoNode EXCEPT !.alloc = TRUE, !.isFile = isFile, !.name = name]

\* the first node named nm in the list that starts at e
RECURSIVE Lookup(_, _, _)
Lookup(ns, e, nm) ==
    IF e = NIL THEN NIL
    ELSE IF ns[e].name = nm THEN e
    ELSE Lookup(ns, ns[e].next, nm)

\* the node before n in the list that starts at e
RECURSIVE Pred(_, _, _)
Pred(ns, e, n) ==
    IF e = NIL THEN NIL
    ELSE IF ns[e].next = n THEN e
    ELSE Pred(ns, ns[e].next, n)

\* the nodes of the list that starts at e, in order
RECURSIVE ListOf(_, _)
ListOf(ns, e) == IF e = NIL THEN <<>> ELSE <<e>> \o ListOf(ns, ns[e].next)

RECURSIVE find(_, _, _)
find(ns, root, path) ==
    LET n == Lookup(ns, ns[root].list, Head(path))
    IN  IF n = NIL THEN NIL
        ELSE IF Len(path) = 1 THEN n
        ELSE IF ~ns[n].isFile THEN find(ns, n, Tail(path))
        ELSE NIL

findDir(ns, root, path) ==
    IF Len(path) = 1 THEN [dir |-> root, base |-> path]
    ELSE LET dir == find(ns, root, Front(path))
         IN  IF dir = NIL \/ ns[dir].isFile
             THEN [dir |-> dir, base |-> Front(path)]
             ELSE [dir |-> dir, base |-> <<Last(path)>>]

\* n.next = dir.list; dir.list = n
link(ns, dir, n) == [ns EXCEPT ![n].next = ns[dir].list, ![dir].list = n]

\* unlink that returns the node and leaves it in the list
unlink_NoDetach(ns, dir, nm) == [n |-> Lookup(ns, ns[dir].list, nm), ns |-> ns]

unlink(ns, dir, nm) ==
    LET n == Lookup(ns, ns[dir].list, nm)
    IN  [n |-> n,
         ns |-> IF n = NIL THEN ns
                ELSE IF ns[dir].list = n THEN [ns EXCEPT ![dir].list = ns[n].next]
                ELSE [ns EXCEPT ![Pred(ns, ns[dir].list, n)].next = ns[n].next]]

sizeOf(ns, n) == IF ns[n].isFile THEN emptyFileSize + Len(ns[n].buf) ELSE dirSize

(***************************************************************************)
(* file.Write's arithmetic and buffer handling.                            *)
(***************************************************************************)
\* the switch of file.go lines 69-77 with its first case only
roundUp_Flat(cap) == 15

\* file.go lines 69-77
roundUp(cap) == IF cap < 64 THEN 15 ELSE IF cap < 256 THEN 31 ELSE 63

\* the capacity without rounding: make([]byte, pos1)
newCap_Exact(pos1, cap) == pos1

\* (pos1 + roundUp) &^ roundUp
newCap(pos1, cap) == ((pos1 + roundUp(cap)) \div (roundUp(cap) + 1)) * (roundUp(cap) + 1)

\* grow without copy(data1[:pos], data): the bytes before pos are lost
grow_NoCopy(nd, pos, pos1) ==
    [nd EXCEPT !.buf = [i \in 1..newCap(pos1, Len(nd.buf)) |-> 0], !.len = pos1]

\* data1 := make([]byte, pos1, newCap); copy(data1[:pos], data)
grow(nd, pos, pos1) ==
    [nd EXCEPT !.buf = [i \in 1..newCap(pos1, Len(nd.buf)) |->
                           IF i <= Min(pos, nd.len) THEN nd.buf[i] ELSE 0],
               !.len = pos1]

\* the slice after the write has been prepared: grown, extended or as it is
prepare(nd, pos, pos1) ==
    IF pos1 > Len(nd.buf) THEN grow(nd, pos, pos1)
    ELSE IF pos1 > nd.len THEN [nd EXCEPT !.len = pos1]
    ELSE nd

\* copy(f.n.data[f.pos:], p)
copyAt(nd, pos, p) ==
    [nd EXCEPT !.buf = [i \in 1..Len(nd.buf) |->
                           IF i > pos /\ i <= pos + Len(p) THEN p[i - pos] ELSE nd.buf[i]]]

\* the bytes of the file: n.data[0:len]
Data(nd) == SubSeq(nd.buf, 1, nd.len)

(***************************************************************************)
(* Handles: file.go (file) and the dir handle. n = NIL once Close has run. *)
(***************************************************************************)
\* fin counts the calls of the finalizer closed; seen lists the entries that
\* ReadDir has returned through the handle
NoHandle ==
    [used |-> FALSE, isDir |-> FALSE, rdwr |-> O_RDONLY, n |-> NIL, pos |-> 0, fin |-> 0,
     seen |-> <<>>]

\* open(n, name, closed, flag, pos)
open(ns, n, flag, pos) ==
    IF ~ns[n].isFile
    THEN [NoHandle EXCEPT !.used = TRUE, !.isDir = TRUE, !.n = n]
    ELSE [NoHandle EXCEPT !.used = TRUE, !.n = n, !.pos = pos, !.rdwr = flag.rdwr]

VARIABLES
    nodes,      \* the nodes: root and every node ever allocated
    size,       \* FS.size, the bytes charged
    items,      \* FS.items
    maxSize,    \* FS.maxSize
    handles,    \* the handles returned so far
    pc,         \* where each thread is in its call
    loc,        \* the local variables of each thread's call
    res,        \* what each thread's last call returned
    pre,        \* the state when the last call started (kept when one thread runs)
    arg,        \* the arguments of each thread's last call
    nops,       \* calls started so far
    threads,    \* the threads that make calls
    budget,     \* calls this behaviour may start
    dirRev,     \* the revision of the dir handle that is built: dir.go or part_004
    dfiles,     \* the handles returned by termfs, LightFS and semihostfs
    term,       \* the termfs FS with its reader's pending input and its writer's output
    light,      \* the reader's pending input and the writer's output of the LightFS
    host        \* the semihosting host: its errno, its file and the offset of each descriptor

vars == <<nodes, size, items, maxSize, handles, pc, loc, res, pre, arg, nops, threads, budget,
          dirRev, dfiles, term, light, host>>

\* what the calls of ramfs leave alone
ovars == <<dirRev, dfiles, term, light, host>>

\* the terminal file systems
tvars == <<term, light>>

\* old is the node as a Write found it and i the bytes of p it has copied
NoLoc == [dir |-> NIL, base |-> <<>>, n |-> NIL, add |-> 0, err |-> "OK", old |-> NoNode, i |-> 0]

\* the arguments of a call: the path (and Rename's new path), the flag of an
\* open, the handle of a handle method, and the buffer of a Write or the
\* length of the buffer of a Read
Args(path, newpath, flag, h, p, k) ==
    [path |-> path, newpath |-> newpath, flag |-> flag, h |-> h, p |-> p, k |-> k]

NoFlag == Flag(O_RDONLY, FALSE, FALSE, FALSE, FALSE)
NoArgs == Args(<<>>, <<>>, NoFlag, NIL, <<>>, 0)

\* a result: the call, its error, its byte count, its handle, the bytes read,
\* the path the error names and how often the call ran its finalizer
Result(op, err, n, h, out, path, fin) ==
    [op |-> op, err |-> err, n |-> n, h |-> h, out |-> out, path |-> path, fin |-> fin]

NoRes == Result("none", "OK", 0, NIL, <<>>, <<>>, 0)

Snapshot == [size |-> size, items |-> items, nodes |-> nodes, handles |-> handles]

\* the two revisions of the dir handle: src/ramfs/dir.go and the one with a mutex
DirRevs == {"dir.go", "part_004"}

\* the handles of termfs (file.closed) and of semihostfs; open is closed != nil
DevIds == 1..MaxDevHandles
NoDev == [used |-> FALSE, backend |-> "none", flag |-> NoFlag, open |-> FALSE, fin |-> 0]

\* termfs.go lines 428-430: New leaves line nil, rpos 0 and every flag clear;
\* buf is line[:cap(line)], len is len(line), lineMode is ansi[0] != 0, typed
\* counts the keys typed on the terminal.  Two fields keep the history of
\* the line the editor works on: used, the input bytes the editor read for
\* it, and got, the bytes of it the Reads have returned
TermNew ==
    [in |-> <<>>, out |-> <<>>, typed |-> 0, buf |-> <<>>, len |-> 0, rpos |-> 0,
     lineMode |-> FALSE, echo |-> FALSE, eof |-> FALSE, inCRLF |-> FALSE, outLFCRLF |-> FALSE,
     used |-> <<>>, got |-> <<>>]

\* the host before the first call: a file of three bytes, no descriptor moved
HostData == <<7, 8, 9>>
HostNew == [errno |-> 0, data |-> HostData, pos |-> [d \in DevIds |-> 0]]

\* part_002 lines 29-31: NewLight
LightNew == [in |-> <<>>, out |-> <<>>, typed |-> 0]

InitSized(ts, b, sizes) ==
    /\ dfiles = [d \in DevIds |-> NoDev]
    /\ term = TermNew
    /\ light = LightNew
    /\ host = HostNew
    /\ nodes = [i \in NodeIds |-> IF i = Root THEN RootNode ELSE NoNode]
    /\ size = 0
    /\ items = 0
    /\ maxSize \in sizes
    /\ handles = [h \in HandleIds |-> NoHandle]
    /\ pc = [t \in Threads |-> "idle"]
    /\ loc = [t \in Threads |-> NoLoc]
    /\ res = [t \in Threads |-> NoRes]
    /\ arg = [t \in Threads |-> NoArgs]
    /\ nops = 0
    /\ threads = ts
    /\ budget = b
    /\ pre = [t \in Threads |->
                [size |-> 0, items |-> 0,
                 nodes |-> [i \in NodeIds |-> IF i = Root THEN RootNode ELSE NoNode],
                 handles |-> [h \in HandleIds |-> NoHandle]]]

InitState(ts, b) == InitSized(ts, b, MaxSizes)

InitWith(ts, b) == InitState(ts, b) /\ dirRev = "part_004"

Init == InitWith({1}, MaxOps)
InitC == InitWith({1, 2}, MaxOpsC)

(***************************************************************************)
(* Calls.  A thread starts a call when it is idle; nops counts the calls.  *)
(***************************************************************************)
Idle(t) == t \in threads /\ pc[t] = "idle" /\ nops < budget

Begin(t, a) ==
    /\ nops' = nops + 1
    /\ pre' = IF threads = {t} THEN [pre EXCEPT ![t] = Snapshot] ELSE pre
    /\ arg' = [arg EXCEPT ![t] = a]

Return(t, r) ==
    /\ pc' = [pc EXCEPT ![t] = "idle"]
    /\ loc' = [loc EXCEPT ![t] = NoLoc]
    /\ res' = [res EXCEPT ![t] = r]
    /\ UNCHANGED ovars

Goto(t, label, l) ==
    /\ pc' = [pc EXCEPT ![t] = label]
    /\ loc' = [loc EXCEPT ![t] = l]
    /\ UNCHANGED <<res, ovars>>

\* the handle and the node the next allocation yields
NewHandle == CHOOSE h \in HandleIds : ~handles[h].used /\ \A g \in 1..(h - 1) : handles[g].used
NewNodeId == CHOOSE n \in NodeIds : ~nodes[n].alloc /\ \A m \in 1..(n - 1) : nodes[m].alloc

OpenPcs == {"o_trunc", "o_findDir", "o_find2", "o_charge", "o_rollback", "o_items", "o_link",
            "f_1", "f_2"}
MakePcs == {"o_findDir", "o_find2", "o_charge", "o_rollback", "o_items", "o_link",
            "m_charge", "m_rollback", "m_items", "m_link"}

\* the model's pools hold a handle, or a node, for every call that may take one
HandleLeft ==
    Cardinality({h \in HandleIds : ~handles[h].used})
        > Cardinality({u \in threads : pc[u] \in OpenPcs})
NodeLeft ==
    Cardinality({n \in NodeIds : ~nodes[n].alloc})
        > Cardinality({u \in threads : pc[u] \in MakePcs})

\* f.mu of handle h, or the lock of node n, is held by a Write that is between
\* its charge and the rollback of it ("w_rollback"), by a Write that copies
\* ("w_copy") or, f.mu only, by a Read that copies ("r_copy"); d.mu of a
\* directory handle is held by a ReadDir ("rd_h", "rd_n", "rd_c")
HLocked(h) ==
    \E u \in threads :
        pc[u] \in {"w_rollback", "w_copy", "r_copy", "rd_h", "rd_n", "rd_c"} /\ arg[u].h = h
WLocked(n) ==
    \E u \in threads : pc[u] \in {"w_rollback", "w_copy"} /\ handles[arg[u].h].n = n
\* the nodes whose lock a call at position p holds for reading: find holds the
\* directory it searches ("f_1") and the one below it ("f_2"), ReadDir its
\* directory ("rd_n") and the child it stats ("rd_c"), with the outer node in
\* dir and the inner one in n
ReadHeldAt(p, l) ==
    IF p \in {"f_1", "rd_n"} THEN {l.dir}
    ELSE IF p \in {"f_2", "rd_c"} THEN {l.dir, l.n}
    ELSE {}
\* the lock of node n is read-held by a Read that copies, a find or a ReadDir
RLocked(n) ==
    \E u \in threads :
        \/ pc[u] = "r_copy" /\ handles[arg[u].h].n = n
        \/ n \in ReadHeldAt(pc[u], loc[u])

\* return open(n, name, closed, flag, pos), nil
ReturnHandle(t, ns, n, flag, pos) ==
    /\ handles' = [handles EXCEPT ![NewHandle] = open(ns, n, flag, pos)]
    /\ Return(t, Result("open", "OK", 0, NewHandle, <<>>, <<>>, 0))

\* error: closed(); return nil, &fs.PathError{Op: "open", Path: name, Err: err}
OpenError(t, err, path) ==
    /\ Return(t, Result("open", err, 0, NIL, <<>>, path, 1))
    /\ UNCHANGED handles

(***************************************************************************)
(* FS.OpenWithFinalizer, ramfs.go lines 660-733.                           *)
(***************************************************************************)
OpenStart(t, path, flag) ==
    /\ Idle(t)
    /\ HandleLeft
    /\ flag.creat => NodeLeft
    /\ Begin(t, Args(path, <<>>, flag, NIL, <<>>, 0))
    /\ UNCHANGED <<nodes, size, items, maxSize, threads, budget>>
    /\ IF ~ValidPath(path) THEN OpenError(t, "EINVAL", path)
       ELSE IF path = DotPath
       THEN IF flag.creat THEN OpenError(t, "ENOTSUP", path)
            ELSE ReturnHandle(t, nodes, Root, flag, 0)
       ELSE LET n == find(nodes, Root, path)
            IN  IF n # NIL
                THEN IF flag.trunc \/ flag.append
                     THEN /\ Goto(t, "o_trunc", [NoLoc EXCEPT !.n = n])
                          /\ UNCHANGED handles
                     ELSE ReturnHandle(t, nodes, n, flag, 0)
                ELSE IF ~flag.creat THEN OpenError(t, "ENOENT", path)
                ELSE /\ Goto(t, "o_findDir", NoLoc)
                     /\ UNCHANGED handles

\* lines 676-685: under n.mu, truncate or take the length as the position
OpenTrunc(t) ==
    /\ t \in threads /\ pc[t] = "o_trunc"
    /\ ~WLocked(loc[t].n)
    /\ LET n == loc[t].n
           pos == IF arg[t].flag.trunc THEN 0 ELSE nodes[n].len
       IN  /\ nodes' = IF arg[t].flag.trunc
                       THEN [nodes EXCEPT ![n].buf = <<>>, ![n].len = 0]
                       ELSE nodes
           /\ ReturnHandle(t, nodes, n, arg[t].flag, pos)
    /\ UNCHANGED <<size, items, maxSize, pre, arg, nops, threads, budget>>

\* lines 691-701
OpenFindDir(t) ==
    /\ t \in threads /\ pc[t] = "o_findDir"
    /\ LET fd == findDir(nodes, Root, arg[t].path)
       IN  IF fd.dir = NIL THEN OpenError(t, "ENOENT", fd.base)
           ELSE IF nodes[fd.dir].isFile THEN OpenError(t, "ENOTDIR", fd.base)
           ELSE /\ Goto(t, "o_find2", [loc[t] EXCEPT !.dir = fd.dir, !.base = fd.base])
                /\ UNCHANGED handles
    /\ UNCHANGED <<nodes, size, items, maxSize, pre, arg, nops, threads, budget>>

\* lines 702-703 and 725-728
OpenFind2(t) ==
    /\ t \in threads /\ pc[t] = "o_find2"
    /\ LET n == find(nodes, loc[t].dir, loc[t].base)
       IN  IF n = NIL
           THEN Goto(t, "o_charge", loc[t]) /\ UNCHANGED handles
           ELSE IF ~arg[t].flag.excl THEN ReturnHandle(t, nodes, n, arg[t].flag, 0)
           ELSE OpenError(t, "EEXIST", arg[t].path)
    /\ UNCHANGED <<nodes, size, items, maxSize, pre, arg, nops, threads, budget>>

\* line 704: atomic.AddInt64(&fsys.size, emptyFileSize) > fsys.maxSize
OpenCharge(t) ==
    /\ t \in threads /\ pc[t] = "o_charge"
    /\ size' = size + emptyFileSize
    /\ Goto(t, IF size' > maxSize THEN "o_rollback" ELSE "o_items", loc[t])
    /\ UNCHANGED <<nodes, items, maxSize, handles, pre, arg, nops, threads, budget>>

\* OpenRollback without atomic.AddInt64(&fsys.size, -emptyFileSize)
OpenRollback_NoUndo(t) ==
    /\ t \in threads /\ pc[t] = "o_rollback"
    /\ size' = size
    /\ OpenError(t, "ENOSPC", arg[t].path)
    /\ UNCHANGED <<nodes, items, maxSize, pre, arg, nops, threads, budget>>

\* lines 705-707
OpenRollback(t) ==
    /\ t \in threads /\ pc[t] = "o_rollback"
    /\ size' = size - emptyFileSize
    /\ OpenError(t, "ENOSPC", arg[t].path)
    /\ UNCHANGED <<nodes, items, maxSize, pre, arg, nops, threads, budget>>

\* line 709
OpenItems(t) ==
    /\ t \in threads /\ pc[t] = "o_items"
    /\ items' = items + 1
    /\ Goto(t, "o_link", loc[t])
    /\ UNCHANGED <<nodes, size, maxSize, handles, pre, arg, nops, threads, budget>>

\* lines 710-723: the new file is linked at the head of dir's list under dir.mu
OpenLink(t) ==
    /\ t \in threads /\ pc[t] = "o_link"
    /\ LET n == NewNodeId
           ns == link([nodes EXCEPT ![n] = NewNode(TRUE, loc[t].base[1])], loc[t].dir, n)
       IN  /\ nodes' = ns
           /\ ReturnHandle(t, ns, n, arg[t].flag, 0)
    /\ UNCHANGED <<size, items, maxSize, pre, arg, nops, threads, budget>>

(***************************************************************************)
(* FS.Mkdir, ramfs.go lines 749-794.                                       *)
(***************************************************************************)
MkdirError(t, err, path) == Return(t, Result("mkdir", err, 0, NIL, <<>>, path, 0))

MkdirStart(t, path) ==
    /\ Idle(t)
    /\ NodeLeft
    /\ Begin(t, Args(path, <<>>, NoFlag, NIL, <<>>, 0))
    /\ UNCHANGED <<nodes, size, items, maxSize, handles, threads, budget>>
    /\ IF ~ValidPath(path) THEN MkdirError(t, "EINVAL", path)
       ELSE IF path = DotPath THEN MkdirError(t, "EEXIST", path)
       ELSE LET fd == findDir(nodes, Root, path)
            IN  IF fd.dir = NIL THEN MkdirError(t, "ENOENT", fd.base)
                ELSE IF nodes[fd.dir].isFile THEN MkdirError(t, "ENOTDIR", fd.base)
                ELSE Goto(t, "m_charge",
                          [NoLoc EXCEPT !.dir = fd.dir, !.base = fd.base])

\* line 771
MkdirCharge(t) ==
    /\ t \in threads /\ pc[t] = "m_charge"
    /\ size' = size + dirSize
    /\ Goto(t, IF size' > maxSize THEN "m_rollback" ELSE "m_items", loc[t])
    /\ UNCHANGED <<nodes, items, maxSize, handles, pre, arg, nops, threads, budget>>

\* lines 772-774
MkdirRollback(t) ==
    /\ t \in threads /\ pc[t] = "m_rollback"
    /\ size' = size - dirSize
    /\ MkdirError(t, "ENOSPC", arg[t].path)
    /\ UNCHANGED <<nodes, items, maxSize, handles, pre, arg, nops, threads, budget>>

\* line 776
MkdirItems(t) ==
    /\ t \in threads /\ pc[t] = "m_items"
    /\ items' = items + 1
    /\ Goto(t, "m_link", loc[t])
    /\ UNCHANGED <<nodes, size, maxSize, handles, pre, arg, nops, threads, budget>>

\* lines 777-790: the new directory is linked whatever dir's list holds
MkdirLink(t) ==
    /\ t \in threads /\ pc[t] = "m_link"
    /\ LET n == NewNodeId
       IN  nodes' = link([nodes EXCEPT ![n] = NewNode(FALSE, loc[t].base[1])], loc[t].dir, n)
    /\ Return(t, Result("mkdir", "OK", 0, NIL, <<>>, <<>>, 0))
    /\ UNCHANGED <<size, items, maxSize, handles, pre, arg, nops, threads, budget>>

(***************************************************************************)
(* FS.Remove, ramfs.go lines 831-864.                                      *)
(***************************************************************************)
RemoveError(t, err, path) == Return(t, Result("remove", err, 0, NIL, <<>>, path, 0))

RemoveStart(t, path) ==
    /\ Idle(t)
    /\ Begin(t, Args(path, <<>>, NoFlag, NIL, <<>>, 0))
    /\ UNCHANGED <<nodes, size, items, maxSize, handles, threads, budget>>
    /\ IF ~ValidPath(path) THEN RemoveError(t, "EINVAL", path)
       ELSE IF path = DotPath THEN RemoveError(t, "ENOTSUP", path)
       ELSE LET fd == findDir(nodes, Root, path)
            IN  IF fd.dir = NIL THEN RemoveError(t, "ENOENT", fd.base)
                ELSE IF nodes[fd.dir].isFile THEN RemoveError(t, "ENOTDIR", fd.base)
                ELSE Goto(t, "r_unlink",
                          [NoLoc EXCEPT !.dir = fd.dir, !.base = fd.base])

\* lines 853-857
RemoveUnlink(t) ==
    /\ t \in threads /\ pc[t] = "r_unlink"
    /\ LET u == unlink(nodes, loc[t].dir, loc[t].base[1])
       IN  /\ nodes' = u.ns
           /\ IF u.n = NIL THEN RemoveError(t, "ENOENT", arg[t].path)
              ELSE Goto(t, "r_items", [loc[t] EXCEPT !.n = u.n])
    /\ UNCHANGED <<size, items, maxSize, handles, pre, arg, nops, threads, budget>>

\* line 858
RemoveItems(t) ==
    /\ t \in threads /\ pc[t] = "r_items"
    /\ items' = items - 1
    /\ Goto(t, "r_size", loc[t])
    /\ UNCHANGED <<nodes, size, maxSize, handles, pre, arg, nops, threads, budget>>

\* line 859: size(n) reads cap(n.data) under n.mu
RemoveSize(t) ==
    /\ t \in threads /\ pc[t] = "r_size"
    /\ ~WLocked(loc[t].n)
    /\ size' = size - sizeOf(nodes, loc[t].n)
    /\ Return(t, Result("remove", "OK", 0, NIL, <<>>, <<>>, 0))
    /\ UNCHANGED <<nodes, items, maxSize, handles, pre, arg, nops, threads, budget>>

(***************************************************************************)
(* FS.Rename, ramfs.go lines 866-914.                                      *)
(***************************************************************************)
RenameError(t, err, path) == Return(t, Result("rename", err, 0, NIL, <<>>, path, 0))

\* lines 871-877
RenameStart(t, oldname, newname) ==
    /\ Idle(t)
    /\ Begin(t, Args(oldname, newname, NoFlag, NIL, <<>>, 0))
    /\ UNCHANGED <<nodes, size, items, maxSize, handles, threads, budget>>
    /\ LET fd == findDir(nodes, Root, oldname)
       IN  IF fd.dir = NIL \/ nodes[fd.dir].isFile THEN RenameError(t, "ENOENT", oldname)
           ELSE Goto(t, "n_unlink",
                     [NoLoc EXCEPT !.dir = fd.dir, !.base = fd.base])

\* lines 878-883
RenameUnlink(t) ==
    /\ t \in threads /\ pc[t] = "n_unlink"
    /\ LET u == unlink(nodes, loc[t].dir, loc[t].base[1])
       IN  /\ nodes' = u.ns
           /\ IF u.n = NIL THEN RenameError(t, "ENOENT", arg[t].path)
              ELSE Goto(t, "n_findDir", [loc[t] EXCEPT !.n = u.n])
    /\ UNCHANGED <<size, items, maxSize, handles, pre, arg, nops, threads, budget>>

\* lines 884-894: on failure the error path links n back (lines 907-912)
RenameFindDir(t) ==
    /\ t \in threads /\ pc[t] = "n_findDir"
    /\ LET fd == findDir(nodes, Root, arg[t].newpath)
       IN  IF fd.dir = NIL
           THEN Goto(t, "n_relink", [loc[t] EXCEPT !.err = "ENOENT", !.base = fd.base])
           ELSE IF nodes[fd.dir].isFile
           THEN Goto(t, "n_relink", [loc[t] EXCEPT !.err = "ENOTDIR", !.base = fd.base])
           ELSE Goto(t, "n_link", [loc[t] EXCEPT !.dir = fd.dir, !.base = fd.base])
    /\ UNCHANGED <<nodes, size, items, maxSize, handles, pre, arg, nops, threads, budget>>

\* lines 896-904: n takes its new name and is linked whatever newdir's list holds
RenameLink(t) ==
    /\ t \in threads /\ pc[t] = "n_link"
    /\ nodes' = link([nodes EXCEPT ![loc[t].n].name = loc[t].base[1]], loc[t].dir, loc[t].n)
    /\ Return(t, Result("rename", "OK", 0, NIL, <<>>, <<>>, 0))
    /\ UNCHANGED <<size, items, maxSize, handles, pre, arg, nops, threads, budget>>

\* RenameRelink without n.next = olddir.list; olddir.list = n
RenameRelink_NoLink(t) ==
    /\ t \in threads /\ pc[t] = "n_relink"
    /\ nodes' = nodes
    /\ RenameError(t, loc[t].err, loc[t].base)
    /\ UNCHANGED <<size, items, maxSize, handles, pre, arg, nops, threads, budget>>

\* lines 906-913
RenameRelink(t) ==
    /\ t \in threads /\ pc[t] = "n_relink"
    /\ nodes' = link(nodes, loc[t].dir, loc[t].n)
    /\ RenameError(t, loc[t].err, loc[t].base)
    /\ UNCHANGED <<size, items, maxSize, handles, pre, arg, nops, threads, budget>>

(***************************************************************************)
(* file.Read, file.Write and file.Close (file.go), and dir.Close.          *)
(***************************************************************************)
\* file.go lines 27-53
Read(t, h, k) ==
    /\ Idle(t)
    /\ handles[h].used /\ ~handles[h].isDir
    /\ handles[h].rdwr # O_WRONLY => ~HLocked(h)
    /\ (handles[h].rdwr # O_WRONLY /\ handles[h].n # NIL) => ~WLocked(handles[h].n)
    /\ Begin(t, Args(<<>>, <<>>, NoFlag, h, <<>>, k))
    /\ UNCHANGED <<nodes, size, items, maxSize, threads, budget>>
    /\ LET f == handles[h]
           cnt == Min(k, nodes[f.n].len - f.pos)
       IN  IF f.rdwr = O_WRONLY \/ f.n = NIL
           THEN /\ Return(t, Result("read", "EBADF", 0, h, <<>>, <<>>, 0))
                /\ UNCHANGED handles
           ELSE IF f.pos < nodes[f.n].len
           THEN /\ handles' = [handles EXCEPT ![h].pos = f.pos + cnt]
                /\ Return(t, Result("read", "OK", cnt, h,
                                    SubSeq(nodes[f.n].buf, f.pos + 1, f.pos + cnt), <<>>, 0))
           ELSE /\ Return(t, Result("read", "EOF", 0, h, <<>>, <<>>, 0))
                /\ UNCHANGED handles

\* file.go lines 55-108; a Write whose charge exceeds the quota holds f.mu and
\* n.mu until WriteRollback
Write(t, h, p) ==
    /\ Idle(t)
    /\ handles[h].used /\ ~handles[h].isDir
    /\ handles[h].rdwr # O_RDONLY => ~HLocked(h)
    /\ (handles[h].rdwr # O_RDONLY /\ handles[h].n # NIL) => ~WLocked(handles[h].n)
    /\ Begin(t, Args(<<>>, <<>>, NoFlag, h, p, 0))
    /\ UNCHANGED <<items, maxSize, threads, budget>>
    /\ LET f == handles[h]
           pos1 == f.pos + Len(p)
           add == newCap(pos1, Len(nodes[f.n].buf)) - Len(nodes[f.n].buf)
       IN  IF f.rdwr = O_RDONLY \/ f.n = NIL
           THEN /\ Return(t, Result("write", "EBADF", 0, h, <<>>, <<>>, 0))
                /\ UNCHANGED <<nodes, size, handles>>
           ELSE IF pos1 > Len(nodes[f.n].buf) /\ size + add > maxSize
           THEN /\ size' = size + add
                /\ Goto(t, "w_rollback", [NoLoc EXCEPT !.add = add])
                /\ UNCHANGED <<nodes, handles>>
           ELSE /\ size' = IF pos1 > Len(nodes[f.n].buf) THEN size + add ELSE size
                /\ nodes' = [nodes EXCEPT ![f.n] = copyAt(prepare(@, f.pos, pos1), f.pos, p)]
                /\ handles' = [handles EXCEPT ![h].pos = pos1]
                /\ Return(t, Result("write", "OK", Len(p), h, <<>>, <<>>, 0))

\* WriteRollback without atomic.AddInt64(&f.n.fileFS.size, int64(-add))
WriteRollback_NoUndo(t) ==
    /\ t \in threads /\ pc[t] = "w_rollback"
    /\ size' = size
    /\ Return(t, Result("write", "ENOSPC", 0, arg[t].h, <<>>, <<>>, 0))
    /\ UNCHANGED <<nodes, items, maxSize, handles, pre, arg, nops, threads, budget>>

\* file.go lines 81-83 and 99-107
WriteRollback(t) ==
    /\ t \in threads /\ pc[t] = "w_rollback"
    /\ size' = size - loc[t].add
    /\ Return(t, Result("write", "ENOSPC", 0, arg[t].h, <<>>, <<>>, 0))
    /\ UNCHANGED <<nodes, items, maxSize, handles, pre, arg, nops, threads, budget>>

\* file.go lines 117-129 and part_004 lines 65-77; the dir handle of dir.go
\* (lines 32-35) calls d.closed() and returns nil on every call
Close(t, h) ==
    /\ Idle(t)
    /\ handles[h].used
    /\ ~HLocked(h)
    /\ Begin(t, Args(<<>>, <<>>, NoFlag, h, <<>>, 0))
    /\ UNCHANGED <<nodes, size, items, maxSize, threads, budget>>
    /\ IF handles[h].isDir /\ dirRev = "dir.go"
       THEN /\ handles' = [handles EXCEPT ![h].fin = @ + 1]
            /\ Return(t, Result("close", "OK", 0, h, <<>>, <<>>, 1))
       ELSE IF handles[h].n = NIL
       THEN /\ Return(t, Result("close", "EBADF", 0, h, <<>>, <<>>, 0))
            /\ UNCHANGED handles
       ELSE /\ handles' = [handles EXCEPT ![h].n = NIL, ![h].fin = @ + 1]
            /\ Return(t, Result("close", "OK", 0, h, <<>>, <<>>, 1))

\* a nil pointer dereference or a negative slice length: the goroutine
\* panics and makes no further call
Fault(t, r) ==
    /\ pc' = [pc EXCEPT ![t] = "fault"]
    /\ loc' = [loc EXCEPT ![t] = NoLoc]
    /\ res' = [res EXCEPT ![t] = r]
    /\ UNCHANGED ovars

\* file.go lines 110-115 and part_004 lines 28-33: stat(f.n) reads n.name with
\* no nil check; dir.go lines 24-26 return ENOTSUP.  The result carries the
\* name in path, the size in n and isDir as out
Stat(t, h) ==
    /\ Idle(t)
    /\ handles[h].used
    /\ ~HLocked(h)
    /\ handles[h].n # NIL => ~WLocked(handles[h].n)
    /\ Begin(t, Args(<<>>, <<>>, NoFlag, h, <<>>, 0))
    /\ UNCHANGED <<nodes, size, items, maxSize, handles, threads, budget>>
    /\ LET f == handles[h]
       IN  IF f.isDir /\ dirRev = "dir.go"
           THEN Return(t, Result("stat", "ENOTSUP", 0, h, <<>>, <<>>, 0))
           ELSE IF f.n = NIL
           THEN Fault(t, Result("stat", "PANIC", 0, h, <<>>, <<>>, 0))
           ELSE Return(t, Result("stat", "OK", nodes[f.n].len, h,
                                 <<IF nodes[f.n].isFile THEN 0 ELSE 1>>,
                                 <<nodes[f.n].name>>, 0))

\* part_004 lines 35-63: the entries are the m list elements from index d.pos
\* on; d.n.mu.RLock() on a nil d.n and make([]fs.DirEntry, m) with m < 0
\* panic; dir.go lines 28-30 return ENOTSUP
ReadDir(t, h, k) ==
    /\ Idle(t)
    /\ handles[h].used /\ handles[h].isDir
    /\ Begin(t, Args(<<>>, <<>>, NoFlag, h, <<>>, k))
    /\ UNCHANGED <<nodes, size, items, maxSize, threads, budget>>
    /\ LET d == handles[h]
           es == ListOf(nodes, nodes[d.n].list)
           all == Len(es) - d.pos
           m == IF k > 0 /\ all > k THEN k ELSE all
           de == SubSeq(es, d.pos + 1, d.pos + m)
       IN  IF dirRev = "dir.go"
           THEN /\ Return(t, Result("readdir", "ENOTSUP", 0, h, <<>>, <<>>, 0))
                /\ UNCHANGED handles
           ELSE IF d.n = NIL \/ all < 0
           THEN /\ Fault(t, Result("readdir", "PANIC", 0, h, <<>>, <<>>, 0))
                /\ UNCHANGED handles
           ELSE IF all = 0
           THEN /\ Return(t, Result("readdir", "EOF", 0, h, <<>>, <<>>, 0))
                /\ UNCHANGED handles
           ELSE /\ \A i \in 1..m : ~WLocked(de[i])
                /\ handles' = [handles EXCEPT ![h].pos = d.pos + m, ![h].seen = @ \o de]
                /\ Return(t, Result("readdir", "OK", m, h, de, <<>>, 0))

(***************************************************************************)
(* file.Read and file.Write step by step: the locks are taken, the bytes   *)
(* are copied one at a time, the locks are released.                       *)
(***************************************************************************)
\* the content of node n before the Write that is copying into it, if any
Committed(n) ==
    IF \E u \in threads : pc[u] = "w_copy" /\ handles[arg[u].h].n = n
    THEN (LET u == CHOOSE v \in threads : pc[v] = "w_copy" /\ handles[arg[v].h].n = n
          IN  loc[u].old)
    ELSE nodes[n]

\* f.n.mu.RLock() that never waits for a writer
CanRLock_Always(h) == TRUE

\* f.n.mu.RLock() of file.go line 39 can proceed: no Write holds the node's lock
CanRLock(h) ==
    (handles[h].rdwr # O_WRONLY /\ handles[h].n # NIL) => ~WLocked(handles[h].n)

\* file.go lines 27-39: f.mu.Lock() and f.n.mu.RLock()
ReadLock(t, h, k) ==
    /\ Idle(t)
    /\ handles[h].used /\ ~handles[h].isDir
    /\ handles[h].rdwr # O_WRONLY => ~HLocked(h)
    /\ CanRLock(h)
    /\ Begin(t, Args(<<>>, <<>>, NoFlag, h, <<>>, k))
    /\ UNCHANGED <<nodes, size, items, maxSize, handles, threads, budget>>
    /\ IF handles[h].rdwr = O_WRONLY \/ handles[h].n = NIL
       THEN Return(t, Result("read", "EBADF", 0, h, <<>>, <<>>, 0))
       ELSE Goto(t, "r_copy", [NoLoc EXCEPT !.old = Committed(handles[h].n)])

\* file.go lines 40-53: the copy, f.n.mu.RUnlock() and f.mu.Unlock()
ReadCopy(t) ==
    /\ pc[t] = "r_copy"
    /\ UNCHANGED <<nodes, size, items, maxSize, pre, arg, nops, threads, budget>>
    /\ LET h == arg[t].h
           f == handles[h]
           cnt == Min(arg[t].k, nodes[f.n].len - f.pos)
       IN  IF f.pos < nodes[f.n].len
           THEN /\ handles' = [handles EXCEPT ![h].pos = f.pos + cnt]
                /\ Return(t, Result("read", "OK", cnt, h,
                                    SubSeq(nodes[f.n].buf, f.pos + 1, f.pos + cnt), <<>>, 0))
           ELSE /\ Return(t, Result("read", "EOF", 0, h, <<>>, <<>>, 0))
                /\ UNCHANGED handles

\* file.go lines 55-89: f.mu.Lock(), f.n.mu.Lock(), the charge and the new
\* slice; the copy of p follows in WriteByte
WriteLock(t, h, p) ==
    /\ Idle(t)
    /\ handles[h].used /\ ~handles[h].isDir
    /\ handles[h].rdwr # O_RDONLY => ~HLocked(h)
    /\ (handles[h].rdwr # O_RDONLY /\ handles[h].n # NIL)
          => ~WLocked(handles[h].n) /\ ~RLocked(handles[h].n)
    /\ Begin(t, Args(<<>>, <<>>, NoFlag, h, p, 0))
    /\ UNCHANGED <<items, maxSize, handles, threads, budget>>
    /\ LET f == handles[h]
           pos1 == f.pos + Len(p)
           add == newCap(pos1, Len(nodes[f.n].buf)) - Len(nodes[f.n].buf)
       IN  IF f.rdwr = O_RDONLY \/ f.n = NIL
           THEN /\ Return(t, Result("write", "EBADF", 0, h, <<>>, <<>>, 0))
                /\ UNCHANGED <<nodes, size>>
           ELSE IF pos1 > Len(nodes[f.n].buf) /\ size + add > maxSize
           THEN /\ size' = size + add
                /\ Goto(t, "w_rollback", [NoLoc EXCEPT !.add = add])
                /\ UNCHANGED nodes
           ELSE /\ size' = IF pos1 > Len(nodes[f.n].buf) THEN size + add ELSE size
                /\ nodes' = [nodes EXCEPT ![f.n] = prepare(@, f.pos, pos1)]
                /\ Goto(t, "w_copy", [NoLoc EXCEPT !.old = nodes[f.n], !.i = 0])

\* file.go lines 90-101: copy(f.n.data[f.pos:], p) one byte at a time; after
\* the last byte f.pos = pos1 and the locks are released
WriteByte(t) ==
    /\ pc[t] = "w_copy"
    /\ UNCHANGED <<size, items, maxSize, pre, arg, nops, threads, budget>>
    /\ LET h == arg[t].h
           f == handles[h]
           p == arg[t].p
           i == loc[t].i
       IN  /\ nodes' = [nodes EXCEPT ![f.n] = copyAt(@, f.pos + i, <<p[i + 1]>>)]
           /\ IF i + 1 < Len(p)
              THEN /\ Goto(t, "w_copy", [loc[t] EXCEPT !.i = i + 1])
                   /\ UNCHANGED handles
              ELSE /\ handles' = [handles EXCEPT ![h].pos = f.pos + Len(p)]
                   /\ Return(t, Result("write", "OK", Len(p), h, <<>>, <<>>, 0))

(***************************************************************************)
(* termfs (termfs.go lines 522-530 and 653-666) and semihostfs             *)
(* (fs_thumb.go lines 16-72 with the file of part_000 lines 176-189).      *)
(***************************************************************************)
DevLeft == \E d \in DevIds : ~dfiles[d].used
NewDev == CHOOSE d \in DevIds : ~dfiles[d].used /\ \A e \in 1..(d - 1) : dfiles[e].used

\* a call on a device file system: it returns r, or it panics
DevCall(t, a, r) ==
    /\ Idle(t)
    /\ Begin(t, a)
    /\ pc' = [pc EXCEPT ![t] = IF r.err = "PANIC" THEN "fault" ELSE "idle"]
    /\ res' = [res EXCEPT ![t] = r]
    /\ UNCHANGED <<nodes, size, items, maxSize, handles, loc, threads, budget, dirRev, host>>

\* termfs.go lines 522-530: both error returns leave closed uncalled
TermOpen(t, name, flag) ==
    /\ UNCHANGED tvars
    /\ IF name # DotPath
       THEN /\ DevCall(t, Args(name, <<>>, flag, NIL, <<>>, 0),
                       Result("term.open", "ENOENT", 0, NIL, <<>>, name, 0))
            /\ UNCHANGED dfiles
       ELSE IF flag.creat \/ flag.excl \/ flag.trunc \/ flag.append
       THEN /\ DevCall(t, Args(name, <<>>, flag, NIL, <<>>, 0),
                       Result("term.open", "EINVAL", 0, NIL, <<>>, name, 0))
            /\ UNCHANGED dfiles
       ELSE /\ DevLeft
            /\ dfiles' = [dfiles EXCEPT ![NewDev] =
                             [NoDev EXCEPT !.used = TRUE, !.backend = "termfs",
                                           !.flag = flag, !.open = TRUE]]
            /\ DevCall(t, Args(name, <<>>, flag, NIL, <<>>, 0),
                       Result("term.open", "OK", 0, NewDev, <<>>, <<>>, 0))

\* termfs.go lines 653-666, under fs.rlock and fs.wlock
TermClose(t, d) ==
    /\ UNCHANGED tvars
    /\ dfiles[d].used /\ dfiles[d].backend = "termfs"
    /\ IF ~dfiles[d].open
       THEN /\ DevCall(t, Args(<<>>, <<>>, NoFlag, d, <<>>, 0),
                       Result("term.close", "EBADF", 0, d, <<>>, <<>>, 0))
            /\ UNCHANGED dfiles
       ELSE /\ dfiles' = [dfiles EXCEPT ![d].open = FALSE, ![d].fin = @ + 1]
            /\ DevCall(t, Args(<<>>, <<>>, NoFlag, d, <<>>, 0),
                       Result("term.close", "OK", 0, d, <<>>, <<>>, 1))

(***************************************************************************)
(* termfs: the bytes the line editor and the write path know               *)
(* (readline.go lines 14-176, termfs.go line 594).                         *)
(***************************************************************************)
ETX == 3
EOT == 4
BS == 8
LF == 10
CR == 13
esc == 27
SP == 32
chAt == 64
chA == 65
chB == 66
chC == 67
chD == 68
chF == 70
chH == 72
chP == 80
chBracket == 91
DEL == 127
chFE == 254

\* var crlf = [...]byte{'\r', '\n'} cut down to the line feed
crlf_LFOnly == <<LF>>

crlf == <<CR, LF>>

\* termfs.go lines 613-621: the index of the first '\n' of p at or after m, or
\* len(p); m counts from 0
RECURSIVE scanLF(_, _)
scanLF(p, m) ==
    IF p[m + 1] = LF THEN m
    ELSE IF m + 1 = Len(p) THEN m + 1
    ELSE scanLF(p, m + 1)

\* termfs.go lines 610-639: the loop of write with OutLFCRLF set, from n bytes
\* of p done and sent handed to a writer that takes every byte
RECURSIVE writeLoop(_, _, _)
writeLoop(p, n, sent) ==
    LET m == scanLF(p, n)
        sent1 == IF m # n THEN sent \o SubSeq(p, n + 1, m) ELSE sent
    IN  IF m # n /\ m = Len(p) THEN [n |-> m, sent |-> sent1]
        ELSE IF m + 1 = Len(p) THEN [n |-> m + 1, sent |-> sent1 \o crlf]
        ELSE writeLoop(p, m + 1, sent1 \o crlf)

\* termfs.go lines 596-640, write on an open file: the bytes handed to the
\* writer and the count returned
write(p, lfcrlf) ==
    IF Len(p) = 0 THEN [n |-> 0, sent |-> <<>>]
    ELSE IF ~lfcrlf THEN [n |-> Len(p), sent |-> p]
    ELSE writeLoop(p, 0, <<>>)

\* a key, or a key sequence, is typed on the terminal
TermTypeUpTo(key, max) ==
    /\ term.typed < max
    /\ term' = [term EXCEPT !.in = @ \o key, !.typed = @ + 1]
    /\ UNCHANGED <<nodes, size, items, maxSize, handles, pc, loc, res, pre, arg, nops,
                   threads, budget, dirRev, dfiles, light, host>>

TermType(key) == TermTypeUpTo(key, MaxKeys)

\* a call of a method of the termfs FS, which leaves the handles alone
TermCall(t, a, r) == DevCall(t, a, r) /\ UNCHANGED <<dfiles, light>>

\* termfs.go lines 452-458; cmap is <<InCRLF, OutLFCRLF>>
SetCharMap(t, cmap) ==
    /\ term' = [term EXCEPT !.inCRLF = cmap[1], !.outLFCRLF = cmap[2]]
    /\ TermCall(t, NoArgs, Result("term.setcharmap", "OK", 0, NIL, <<>>, <<>>, 0))

\* termfs.go lines 461-466; the result carries the answer in n
Echo(t) ==
    /\ UNCHANGED term
    /\ TermCall(t, NoArgs,
                Result("term.echo", "OK", IF term.echo THEN 1 ELSE 0, NIL, <<>>, <<>>, 0))

\* termfs.go lines 471-480: flags |= echo follows the if and runs for both
\* values of on; the call carries on in k
SetEcho(t, on) ==
    /\ term' = [term EXCEPT !.echo = TRUE]
    /\ TermCall(t, [NoArgs EXCEPT !.k = IF on THEN 1 ELSE 0],
                Result("term.setecho", "OK", 0, NIL, <<>>, <<>>, 0))

\* termfs.go lines 500-518; the call carries enable in k and maxLen in p
SetLineMode(t, enable, maxLen) ==
    /\ term' = [term EXCEPT
                  !.lineMode = enable,
                  !.rpos = -1,
                  !.buf = IF maxLen < 0 THEN @ ELSE [i \in 1..maxLen |-> 0],
                  !.len = IF maxLen < 0 THEN @ ELSE 0]
    /\ TermCall(t, [NoArgs EXCEPT !.k = IF enable THEN 1 ELSE 0, !.p = <<maxLen>>],
                Result("term.setlinemode", "OK", 0, NIL, <<>>, <<>>, 0))

\* termfs.go lines 642-647 with write (596-640)
TermWrite(t, d, p) ==
    /\ dfiles[d].used /\ dfiles[d].backend = "termfs"
    /\ IF dfiles[d].flag.rdwr = O_RDONLY
       THEN /\ TermCall(t, Args(<<>>, <<>>, NoFlag, d, p, 0),
                        Result("term.write", "ENOTSUP", 0, d, <<>>, <<>>, 0))
            /\ UNCHANGED term
       ELSE IF Len(p) # 0 /\ ~dfiles[d].open
       THEN /\ TermCall(t, Args(<<>>, <<>>, NoFlag, d, p, 0),
                        Result("term.write", "EBADF", 0, d, <<>>, <<>>, 0))
            /\ UNCHANGED term
       ELSE LET w == write(p, term.outLFCRLF)
            IN  /\ term' = [term EXCEPT !.out = @ \o w.sent]
                /\ TermCall(t, Args(<<>>, <<>>, NoFlag, d, p, 0),
                            Result("term.write", "OK", w.n, d, w.sent, <<>>, 0))

\* the sizes of the reads an io.Reader may answer a buffer of cnt bytes with
\* when avail bytes are pending: none for an empty buffer, else 1..cnt
ReadSizes(avail, cnt) == IF cnt = 0 THEN {0} ELSE 1..Min(avail, cnt)

(***************************************************************************)
(* termfs: the line editor, readline.go lines 18-218.  The editor's state  *)
(* is the FS (tm), the cursor x, and ret: "run" while the loop runs, an    *)
(* error once it has returned one, "BLOCK" when the reader has no byte.    *)
(***************************************************************************)
\* readline.go lines 209-218 on f.fs.ansi[1:3]: ESC [ n c with n <= 999
RECURSIVE Digits(_)
Digits(n) == IF n < 10 THEN <<48 + n>> ELSE Digits(n \div 10) \o <<48 + (n % 10)>>
appendIntChar(n, c) == <<esc, chBracket>> \o Digits(Min(n, 999)) \o <<c>>

\* write(f, buf) when the echo flag is set
echoOut(s, bytes) ==
    IF s.tm.echo
    THEN [s EXCEPT !.tm.out = @ \o write(bytes, s.tm.outLFCRLF).sent]
    ELSE s

\* readline.go lines 161-181 and 192-198: echo and insert c at x without
\* copy(f.fs.line[x+1:], f.fs.line[x:]): the byte at x is overwritten
insert_NoShift(s, c) ==
    LET m == s.tm.len
        x == s.x
        e == echoOut(s, IF x # m THEN <<esc, chBracket, chAt, c>> ELSE <<c>>)
    IN  [e EXCEPT !.tm.buf = [@ EXCEPT ![x + 1] = c], !.tm.len = m + 1, !.x = x + 1]

\* readline.go lines 161-181 and 192-198: echo and insert c at x
insert(s, c) ==
    LET m == s.tm.len
        x == s.x
        e == echoOut(s, IF x # m THEN <<esc, chBracket, chAt, c>> ELSE <<c>>)
    IN  [e EXCEPT !.tm.buf = [i \in 1..Len(s.tm.buf) |->
                                 IF i <= x THEN s.tm.buf[i]
                                 ELSE IF i = x + 1 THEN c
                                 ELSE IF i <= m + 1 THEN s.tm.buf[i - 1]
                                 ELSE s.tm.buf[i]],
                  !.tm.len = m + 1,
                  !.x = x + 1]

\* readline.go lines 161-191 without x-- of line 183
backspace_KeepX(s) ==
    [s EXCEPT !.tm.buf = [@ EXCEPT ![s.tm.len] = 0], !.tm.len = s.tm.len - 1]

\* readline.go lines 161-191: echo and delete the byte before x
backspace(s) ==
    LET m == s.tm.len
        x == s.x
        e == echoOut(s, IF x = m THEN <<BS, SP, BS>> ELSE <<BS, esc, chBracket, chP>>)
    IN  [e EXCEPT !.tm.buf = [i \in 1..Len(s.tm.buf) |->
                                 IF i <= x - 1 THEN s.tm.buf[i]
                                 ELSE IF i <= m - 1 THEN s.tm.buf[i + 1]
                                 ELSE IF i = m THEN 0
                                 ELSE s.tm.buf[i]],
                  !.tm.len = m - 1,
                  !.x = x - 1]

\* readline.go lines 93-98: the length of the saved line, the index of the
\* first byte below ' ' of line[:cap], or 0 when there is none
savedLen(buf) ==
    IF \E i \in 1..Len(buf) : buf[i] < SP
    THEN (CHOOSE i \in 1..Len(buf) : buf[i] < SP /\ \A j \in 1..(i - 1) : buf[j] >= SP) - 1
    ELSE 0

\* the editor after the first byte of its input has been read
take(s) == [s EXCEPT !.tm.in = Tail(@)]

\* readline.go line 24 of the revision before: two bytes are kept free
lineFull_Less2(tm) == tm.len = Len(tm.buf) - 2

\* readline.go line 24: no room for another byte
lineFull(tm) == tm.len = Len(tm.buf)

\* readline.go line 150 of the revision before: ^C ends the Read with io.EOF
cancelErr_EOF == "EOF"

\* readline.go line 150: the error of a Read that ^C ends
cancelErr == "ECANCELED"

\* readline.go line 20 left out: the eof flag stays set
eofTaken_Kept(tm) == tm

\* readline.go line 20: the pending end of file is reported once
eofTaken(tm) == [tm EXCEPT !.eof = FALSE]

\* readline.go lines 51-147: the two bytes after ESC; a sequence that is not
\* supported is skipped
csi(s) ==
    IF s.tm.in = <<>> THEN [s EXCEPT !.ret = "BLOCK"]
    ELSE IF Head(s.tm.in) # chBracket THEN take(s)
    ELSE IF Tail(s.tm.in) = <<>> THEN [s EXCEPT !.ret = "BLOCK"]
    ELSE LET c == s.tm.in[2]
             s2 == take(take(s))
             m == s2.tm.len
             x == s2.x
         IN  IF c = chC
             THEN (IF x = m THEN s2
                   ELSE echoOut([s2 EXCEPT !.x = x + 1], <<esc, chBracket, chC>>))
             ELSE IF c = chD
             THEN (IF x = 0 THEN s2
                   ELSE echoOut([s2 EXCEPT !.x = x - 1], <<esc, chBracket, chD>>))
             ELSE IF c = chH
             THEN (IF x = 0 THEN s2
                   ELSE echoOut([s2 EXCEPT !.x = 0], appendIntChar(x, chD)))
             ELSE IF c = chF
             THEN (IF m - x = 0 THEN s2
                   ELSE echoOut([s2 EXCEPT !.x = m], appendIntChar(m - x, chC)))
             ELSE IF c = chA
             THEN (IF m # 0 \/ savedLen(s2.tm.buf) = 0 THEN s2
                   ELSE LET k == savedLen(s2.tm.buf)
                        IN  echoOut([s2 EXCEPT !.tm.len = k, !.x = k],
                                    SubSeq(s2.tm.buf, 1, k)))
             ELSE IF c = chB
             THEN (IF m = 0 THEN s2
                   ELSE LET e1 == IF x # 0 THEN echoOut(s2, appendIntChar(x, chD)) ELSE s2
                            e2 == echoOut(e1, appendIntChar(m, chP))
                        IN  [e2 EXCEPT
                               !.tm.buf = IF m # Len(@) THEN [@ EXCEPT ![m + 1] = 0] ELSE @,
                               !.tm.len = 0,
                               !.x = 0])
             ELSE s2

\* readline.go lines 27-198: one pass of the loop that finds a byte to read
editKey(s) ==
    LET c == Head(s.tm.in)
        s1 == take(s)
        nl == [s1 EXCEPT !.x = s1.tm.len, !.tm.rpos = 0]
    IN  IF c = CR THEN (IF ~s.tm.inCRLF THEN s1 ELSE insert(nl, LF))
        ELSE IF c = LF THEN insert(nl, LF)
        ELSE IF c = DEL \/ c = BS THEN (IF s1.x = 0 THEN s1 ELSE backspace(s1))
        ELSE IF c = esc THEN csi(s1)
        ELSE IF c = ETX THEN [s1 EXCEPT !.tm.len = 0, !.ret = cancelErr]
        ELSE IF c = EOT THEN [nl EXCEPT !.tm.eof = TRUE]
        ELSE IF c < SP \/ c >= chFE THEN s1
        ELSE insert(s1, c)

\* readline.go lines 23-199: the loop that edits the line until it is finished
RECURSIVE readLoop(_)
readLoop(s) ==
    IF s.tm.rpos >= 0 \/ s.ret # "run" THEN s
    ELSE IF lineFull(s.tm) THEN [s EXCEPT !.ret = "ELINETOOLONG"]
    ELSE IF s.tm.in = <<>> THEN [s EXCEPT !.ret = "BLOCK"]
    ELSE readLoop(editKey(s))

\* readline.go lines 18-22 and 200-206 around the loop: the FS after the call,
\* the error, and the bytes copied into a buffer of k bytes
readLine(tm, k) ==
    IF tm.rpos < 0 /\ tm.eof
    THEN [tm |-> eofTaken(tm), ret |-> "EOF", data |-> <<>>]
    ELSE LET s == readLoop([tm |-> tm, x |-> 0, ret |-> "run"])
             n == Min(k, s.tm.len - s.tm.rpos)
         IN  IF s.ret # "run" THEN [tm |-> s.tm, ret |-> s.ret, data |-> <<>>]
             ELSE [tm |-> IF s.tm.rpos + n = s.tm.len
                          THEN [s.tm EXCEPT !.rpos = -1, !.len = 0]
                          ELSE [s.tm EXCEPT !.rpos = @ + n],
                   ret |-> "OK",
                   data |-> SubSeq(s.tm.buf, s.tm.rpos + 1, s.tm.rpos + n)]

\* termfs.go lines 581-587: '\r' becomes '\n' when InCRLF is set
mapCR(p, inCRLF) == [i \in 1..Len(p) |-> IF inCRLF /\ p[i] = CR THEN LF ELSE p[i]]

\* termfs.go lines 561-592: file.Read into a buffer of k bytes.  The reader
\* blocks while it has no byte; in raw mode it answers with 1..k bytes
TermRead(t, d, k) ==
    /\ dfiles[d].used /\ dfiles[d].backend = "termfs"
    /\ LET a == Args(<<>>, <<>>, NoFlag, d, <<>>, k)
       IN  IF dfiles[d].flag.rdwr = O_WRONLY
           THEN /\ TermCall(t, a, Result("term.read", "ENOTSUP", 0, d, <<>>, <<>>, 0))
                /\ UNCHANGED term
           ELSE IF k = 0
           THEN /\ TermCall(t, a, Result("term.read", "OK", 0, d, <<>>, <<>>, 0))
                /\ UNCHANGED term
           ELSE IF ~dfiles[d].open
           THEN /\ TermCall(t, a, Result("term.read", "EBADF", 0, d, <<>>, <<>>, 0))
                /\ UNCHANGED term
           ELSE IF ~term.lineMode
           THEN /\ term.in # <<>>
                /\ \E m \in ReadSizes(Len(term.in), k) :
                      LET data == mapCR(SubSeq(term.in, 1, m), term.inCRLF)
                          w == write(data, term.outLFCRLF)
                      IN  /\ term' = [term EXCEPT
                                        !.in = SubSeq(@, m + 1, Len(@)),
                                        !.out = IF term.echo THEN @ \o w.sent ELSE @]
                          /\ TermCall(t, a, Result("term.read", "OK",
                                                   IF term.echo THEN w.n ELSE m,
                                                   d, data, <<>>, 0))
           ELSE LET r == readLine(term, k)
                IN  /\ r.ret # "BLOCK"
                    /\ term' = [r.tm EXCEPT
                                  !.used = IF term.rpos < 0 /\ r.ret # "EOF"
                                           THEN SubSeq(term.in, 1, Len(term.in) - Len(r.tm.in))
                                           ELSE @,
                                  !.got = IF r.ret = "EOF" THEN @
                                          ELSE IF term.rpos < 0 THEN r.data
                                          ELSE @ \o r.data]
                    /\ TermCall(t, a, Result("term.read", r.ret, Len(r.data), d, r.data,
                                             <<>>, 0))

(***************************************************************************)
(* ramfs: find and ReadDir step by step, with the locks of the nodes they  *)
(* walk.  The paths of the calls have two names at most.                   *)
(***************************************************************************)
\* ramfs.go lines 738-740 and 674, 611-617: Open(name) of a name other than
\* "." calls find, which takes root.mu.RLock()
WalkLock(t, path) ==
    /\ Idle(t)
    /\ HandleLeft
    /\ ValidPath(path) /\ path # DotPath /\ Len(path) <= 2
    /\ Begin(t, Args(path, <<>>, Flag(O_RDONLY, FALSE, FALSE, FALSE, FALSE), NIL, <<>>, 0))
    /\ Goto(t, "f_1", [NoLoc EXCEPT !.dir = Root])
    /\ UNCHANGED <<nodes, size, items, maxSize, handles, threads, budget>>
\* ramfs.go lines 618-633: the search of the root; for a directory on the way
\* find(n, name1) takes n.mu.RLock() before root.mu.RUnlock()
WalkStep(t) ==
    /\ t \in threads /\ pc[t] = "f_1"
    /\ UNCHANGED <<nodes, size, items, maxSize, pre, arg, nops, threads, budget>>
    /\ LET path == arg[t].path
           n == Lookup(nodes, nodes[Root].list, Head(path))
       IN  IF n = NIL THEN OpenError(t, "ENOENT", path)
           ELSE IF Len(path) = 1 THEN ReturnHandle(t, nodes, n, arg[t].flag, 0)
           ELSE IF nodes[n].isFile THEN OpenError(t, "ENOENT", path)
           ELSE /\ ~WLocked(n)
                /\ Goto(t, "f_2", [loc[t] EXCEPT !.n = n])
                /\ UNCHANGED handles
\* ramfs.go lines 618-635 of the inner call, then line 633 of the outer one
WalkInner(t) ==
    /\ t \in threads /\ pc[t] = "f_2"
    /\ UNCHANGED <<nodes, size, items, maxSize, pre, arg, nops, threads, budget>>
    /\ LET path == arg[t].path
           n == find(nodes, loc[t].n, Tail(path))
       IN  IF n = NIL THEN OpenError(t, "ENOENT", path)
           ELSE ReturnHandle(t, nodes, n, arg[t].flag, 0)

\* part_004 line 36: d.mu.Lock()
DirLock(t, h, k) ==
    /\ Idle(t)
    /\ handles[h].used /\ handles[h].isDir
    /\ ~HLocked(h)
    /\ Begin(t, Args(<<>>, <<>>, NoFlag, h, <<>>, k))
    /\ Goto(t, "rd_h", NoLoc)
    /\ UNCHANGED <<nodes, size, items, maxSize, handles, threads, budget>>
\* part_004 line 37: d.n.mu.RLock(), which panics on a closed handle
DirNodeLock(t) ==
    /\ t \in threads /\ pc[t] = "rd_h"
    /\ UNCHANGED <<nodes, size, items, maxSize, handles, pre, arg, nops, threads, budget>>
    /\ LET d == handles[arg[t].h]
       IN  IF d.n = NIL
           THEN Fault(t, Result("readdir", "PANIC", 0, arg[t].h, <<>>, <<>>, 0))
           ELSE ~WLocked(d.n) /\ Goto(t, "rd_n", [NoLoc EXCEPT !.dir = d.n])
\* part_004 lines 38-62: the count, then stat(first) for entry i + 1, which
\* takes the lock of the child (ramfs.go line 580), or the end of the call
DirStat(t) ==
    /\ t \in threads /\ pc[t] = "rd_n"
    /\ UNCHANGED <<nodes, size, items, maxSize, pre, arg, nops, threads, budget>>
    /\ LET h == arg[t].h
           d == handles[h]
           es == ListOf(nodes, nodes[d.n].list)
           all == Len(es) - d.pos
           m == IF arg[t].k > 0 /\ all > arg[t].k THEN arg[t].k ELSE all
           de == SubSeq(es, d.pos + 1, d.pos + m)
       IN  IF all < 0
           THEN /\ Fault(t, Result("readdir", "PANIC", 0, h, <<>>, <<>>, 0))
                /\ UNCHANGED handles
           ELSE IF all = 0
           THEN /\ Return(t, Result("readdir", "EOF", 0, h, <<>>, <<>>, 0))
                /\ UNCHANGED handles
           ELSE IF loc[t].i < m
           THEN /\ ~WLocked(de[loc[t].i + 1])
                /\ Goto(t, "rd_c", [loc[t] EXCEPT !.n = de[loc[t].i + 1]])
                /\ UNCHANGED handles
           ELSE /\ handles' = [handles EXCEPT ![h].pos = d.pos + m, ![h].seen = @ \o de]
                /\ Return(t, Result("readdir", "OK", m, h, de, <<>>, 0))
\* ramfs.go line 585: n.mu.RUnlock() of the child
DirStatDone(t) ==
    /\ t \in threads /\ pc[t] = "rd_c"
    /\ Goto(t, "rd_n", [loc[t] EXCEPT !.n = NIL, !.i = @ + 1])
    /\ UNCHANGED <<nodes, size, items, maxSize, handles, pre, arg, nops, threads, budget>>

(***************************************************************************)
(* termfs: the calls step by step, with the two mutexes of the FS          *)
(* (termfs.go lines 421-422).  A thread holds the locks its position says: *)
(* tc_1 and tc_2 are Close after its first and its second Lock, tm_r and   *)
(* tm_rw SetCharMap, tw_w a Write, tr_r0 and tr_r a Read under rlock,      *)
(* tr_rw a cooked Read that echoes, tr_e a raw Read that is to echo.       *)
(***************************************************************************)
\* termfs.go lines 656-657 with the two Locks exchanged
closeOrder_WFirst == <<"wlock", "rlock">>

\* termfs.go lines 656-657: the locks of Close in the order it takes them
closeOrder == <<"rlock", "wlock">>

HoldsAt(p, lock) ==
    \/ p = "tc_1" /\ lock = closeOrder[1]
    \/ p \in {"tc_2", "tm_rw", "tr_rw"}
    \/ p \in {"tm_r", "tr_r0", "tr_r"} /\ lock = "rlock"
    \/ p = "tw_w" /\ lock = "wlock"
Holds(t, lock) == t \in threads /\ HoldsAt(pc[t], lock)
Free(lock) == \A u \in threads : ~Holds(u, lock)

\* the first and the later steps of a call of termfs and its return
TermStart(t, a, label) ==
    /\ Idle(t)
    /\ Begin(t, a)
    /\ pc' = [pc EXCEPT ![t] = label]
    /\ UNCHANGED <<nodes, size, items, maxSize, handles, loc, res, threads, budget, dirRev,
                   light, host>>
TermStep(t, label, l) ==
    /\ pc' = [pc EXCEPT ![t] = label]
    /\ loc' = [loc EXCEPT ![t] = l]
    /\ UNCHANGED <<nodes, size, items, maxSize, handles, res, pre, arg, nops, threads, budget,
                   dirRev, light, host>>
TermEnd(t, r) ==
    /\ pc' = [pc EXCEPT ![t] = "idle"]
    /\ loc' = [loc EXCEPT ![t] = NoLoc]
    /\ res' = [res EXCEPT ![t] = r]
    /\ UNCHANGED <<nodes, size, items, maxSize, handles, pre, arg, nops, threads, budget,
                   dirRev, light, host>>

\* termfs.go lines 653-666: Close
TermCloseLock(t, d) ==
    /\ dfiles[d].used /\ dfiles[d].backend = "termfs"
    /\ Free(closeOrder[1])
    /\ TermStart(t, Args(<<>>, <<>>, NoFlag, d, <<>>, 0), "tc_1")
    /\ UNCHANGED <<term, dfiles>>
TermCloseLock2(t) ==
    /\ t \in threads /\ pc[t] = "tc_1"
    /\ Free(closeOrder[2])
    /\ TermStep(t, "tc_2", NoLoc)
    /\ UNCHANGED <<term, dfiles>>
TermCloseEnd(t) ==
    /\ t \in threads /\ pc[t] = "tc_2"
    /\ UNCHANGED term
    /\ LET d == arg[t].h
       IN  IF ~dfiles[d].open
           THEN /\ TermEnd(t, Result("term.close", "EBADF", 0, d, <<>>, <<>>, 0))
                /\ UNCHANGED dfiles
           ELSE /\ dfiles' = [dfiles EXCEPT ![d].open = FALSE, ![d].fin = @ + 1]
                /\ TermEnd(t, Result("term.close", "OK", 0, d, <<>>, <<>>, 1))

\* termfs.go lines 452-458: SetCharMap; the call carries InCRLF as 1 and
\* OutLFCRLF as 2 in k
SetCharMapLock(t, cmap) ==
    /\ Free("rlock")
    /\ TermStart(t, [NoArgs EXCEPT !.k = (IF cmap[1] THEN 1 ELSE 0) + (IF cmap[2] THEN 2 ELSE 0)],
                 "tm_r")
    /\ UNCHANGED <<term, dfiles>>
SetCharMapLock2(t) ==
    /\ t \in threads /\ pc[t] = "tm_r"
    /\ Free("wlock")
    /\ TermStep(t, "tm_rw", NoLoc)
    /\ UNCHANGED <<term, dfiles>>
SetCharMapEnd(t) ==
    /\ t \in threads /\ pc[t] = "tm_rw"
    /\ term' = [term EXCEPT !.inCRLF = arg[t].k % 2 = 1, !.outLFCRLF = arg[t].k >= 2]
    /\ TermEnd(t, Result("term.setcharmap", "OK", 0, NIL, <<>>, <<>>, 0))
    /\ UNCHANGED dfiles

\* termfs.go lines 642-647 and 596-640: Write
TermWriteLock(t, d, p) ==
    /\ dfiles[d].used /\ dfiles[d].backend = "termfs"
    /\ UNCHANGED term
    /\ IF dfiles[d].flag.rdwr = O_RDONLY
       THEN TermCall(t, Args(<<>>, <<>>, NoFlag, d, p, 0),
                     Result("term.write", "ENOTSUP", 0, d, <<>>, <<>>, 0))
       ELSE IF Len(p) = 0
       THEN TermCall(t, Args(<<>>, <<>>, NoFlag, d, p, 0),
                     Result("term.write", "OK", 0, d, <<>>, <<>>, 0))
       ELSE /\ Free("wlock")
            /\ TermStart(t, Args(<<>>, <<>>, NoFlag, d, p, 0), "tw_w")
            /\ UNCHANGED dfiles
TermWriteEnd(t) ==
    /\ t \in threads /\ pc[t] = "tw_w"
    /\ UNCHANGED dfiles
    /\ LET d == arg[t].h
           w == write(arg[t].p, term.outLFCRLF)
       IN  IF ~dfiles[d].open
           THEN /\ TermEnd(t, Result("term.write", "EBADF", 0, d, <<>>, <<>>, 0))
                /\ UNCHANGED term
           ELSE /\ term' = [term EXCEPT !.out = @ \o w.sent]
                /\ TermEnd(t, Result("term.write", "OK", w.n, d, w.sent, <<>>, 0))

\* the editor of the Read of thread t, with its cursor in loc[t].i
Editor(t) == [tm |-> term, x |-> loc[t].i, ret |-> "run"]

\* the next pass of the cooked Read of thread t reads a key and echoes
\* (readline.go lines 111, 143 and 178: write takes wlock)
EchoesNext(t) ==
    /\ term.lineMode /\ term.rpos < 0 /\ ~lineFull(term) /\ term.in # <<>>
    /\ editKey(Editor(t)).ret = "run"
    /\ editKey(Editor(t)).tm.out # term.out

\* termfs.go lines 561-592 and readline.go lines 18-207: Read.  The history
\* fields used and got belong to TermRead and stay as they are
TermReadLock(t, d, k) ==
    /\ dfiles[d].used /\ dfiles[d].backend = "termfs"
    /\ UNCHANGED term
    /\ IF dfiles[d].flag.rdwr = O_WRONLY
       THEN TermCall(t, Args(<<>>, <<>>, NoFlag, d, <<>>, k),
                     Result("term.read", "ENOTSUP", 0, d, <<>>, <<>>, 0))
       ELSE IF k = 0
       THEN TermCall(t, Args(<<>>, <<>>, NoFlag, d, <<>>, k),
                     Result("term.read", "OK", 0, d, <<>>, <<>>, 0))
       ELSE /\ Free("rlock")
            /\ TermStart(t, Args(<<>>, <<>>, NoFlag, d, <<>>, k), "tr_r0")
            /\ UNCHANGED dfiles
\* termfs.go lines 569-575 and readline.go lines 19-22
TermReadEnter(t) ==
    /\ t \in threads /\ pc[t] = "tr_r0"
    /\ UNCHANGED dfiles
    /\ LET d == arg[t].h
       IN  IF ~dfiles[d].open
           THEN /\ TermEnd(t, Result("term.read", "EBADF", 0, d, <<>>, <<>>, 0))
                /\ UNCHANGED term
           ELSE IF ~term.lineMode
           THEN /\ term.in # <<>>
                /\ \E m \in ReadSizes(Len(term.in), arg[t].k) :
                      LET data == mapCR(SubSeq(term.in, 1, m), term.inCRLF)
                      IN  /\ term' = [term EXCEPT !.in = SubSeq(@, m + 1, Len(@))]
                          /\ IF term.echo
                             THEN TermStep(t, "tr_e", [NoLoc EXCEPT !.base = data])
                             ELSE TermEnd(t, Result("term.read", "OK", m, d, data, <<>>, 0))
           ELSE IF term.rpos < 0 /\ term.eof
           THEN /\ term' = eofTaken(term)
                /\ TermEnd(t, Result("term.read", "EOF", 0, d, <<>>, <<>>, 0))
           ELSE /\ TermStep(t, "tr_r", [NoLoc EXCEPT !.i = 0])
                /\ UNCHANGED term
\* readline.go lines 23-206: one pass of the loop, or the end of the call
TermReadKey(t) ==
    /\ t \in threads /\ pc[t] = "tr_r"
    /\ UNCHANGED dfiles
    /\ LET d == arg[t].h
           n == Min(arg[t].k, term.len - term.rpos)
           e == editKey(Editor(t))
       IN  IF term.rpos >= 0
           THEN /\ term' = IF term.rpos + n = term.len
                           THEN [term EXCEPT !.rpos = -1, !.len = 0]
                           ELSE [term EXCEPT !.rpos = @ + n]
                /\ TermEnd(t, Result("term.read", "OK", n, d,
                                     SubSeq(term.buf, term.rpos + 1, term.rpos + n), <<>>, 0))
           ELSE IF lineFull(term)
           THEN /\ TermEnd(t, Result("term.read", "ELINETOOLONG", 0, d, <<>>, <<>>, 0))
                /\ UNCHANGED term
           ELSE /\ term.in # <<>>
                /\ e.ret # "BLOCK"
                /\ term' = e.tm
                /\ IF e.ret # "run"
                   THEN TermEnd(t, Result("term.read", e.ret, 0, d, <<>>, <<>>, 0))
                   ELSE IF e.tm.out # term.out
                   THEN Free("wlock") /\ TermStep(t, "tr_rw", [NoLoc EXCEPT !.i = e.x])
                   ELSE TermStep(t, "tr_r", [NoLoc EXCEPT !.i = e.x])
\* termfs.go line 601 at the end of the echo: wlock.Unlock()
TermReadEchoed(t) ==
    /\ t \in threads /\ pc[t] = "tr_rw"
    /\ TermStep(t, "tr_r", loc[t])
    /\ UNCHANGED <<term, dfiles>>
\* termfs.go line 591: the echo of a raw Read, after rlock.Unlock()
TermReadEcho(t) ==
    /\ t \in threads /\ pc[t] = "tr_e"
    /\ Free("wlock")
    /\ UNCHANGED dfiles
    /\ LET d == arg[t].h
           w == write(loc[t].base, term.outLFCRLF)
       IN  IF Len(loc[t].base) # 0 /\ ~dfiles[d].open
           THEN /\ TermEnd(t, Result("term.read", "EBADF", 0, d, <<>>, <<>>, 0))
                /\ UNCHANGED term
           ELSE /\ term' = [term EXCEPT !.out = @ \o w.sent]
                /\ TermEnd(t, Result("term.read", "OK", w.n, d, loc[t].base, <<>>, 0))

(***************************************************************************)
(* LightFS (part_002): a reader and a writer behind two mutexes.           *)
(***************************************************************************)
\* a key is typed on the terminal of the LightFS
LightType(c) ==
    /\ light.typed < MaxLightIn
    /\ light' = [light EXCEPT !.in = Append(@, c), !.typed = @ + 1]
    /\ UNCHANGED <<nodes, size, items, maxSize, handles, pc, loc, res, pre, arg, nops,
                   threads, budget, dirRev, dfiles, term, host>>

\* part_002 lines 35-40: the error return leaves closed uncalled
LightOpen(t, name, flag) ==
    /\ UNCHANGED tvars
    /\ IF name # DotPath
       THEN /\ DevCall(t, Args(name, <<>>, flag, NIL, <<>>, 0),
                       Result("light.open", "ENOENT", 0, NIL, <<>>, name, 0))
            /\ UNCHANGED dfiles
       ELSE /\ DevLeft
            /\ dfiles' = [dfiles EXCEPT ![NewDev] =
                             [NoDev EXCEPT !.used = TRUE, !.backend = "lightfs",
                                           !.flag = flag, !.open = TRUE]]
            /\ DevCall(t, Args(name, <<>>, flag, NIL, <<>>, 0),
                       Result("light.open", "OK", 0, NewDev, <<>>, <<>>, 0))

\* part_002 lines 56-67: the reader is handed p[:n], and n, the named result,
\* is still 0; a reader with nothing pending blocks on a buffer that has room
LightRead(t, d, k) ==
    /\ dfiles[d].used /\ dfiles[d].backend = "lightfs"
    /\ UNCHANGED <<dfiles, term>>
    /\ IF k = 0
       THEN /\ DevCall(t, Args(<<>>, <<>>, NoFlag, d, <<>>, k),
                       Result("light.read", "OK", 0, d, <<>>, <<>>, 0))
            /\ UNCHANGED light
       ELSE LET n == 0
                cnt == Len(SubSeq([i \in 1..k |-> 0], 1, n))
            IN  \E m \in ReadSizes(Len(light.in), cnt) :
                   /\ light' = [light EXCEPT !.in = SubSeq(@, m + 1, Len(@))]
                   /\ DevCall(t, Args(<<>>, <<>>, NoFlag, d, <<>>, k),
                              Result("light.read", "OK", m, d, SubSeq(light.in, 1, m), <<>>, 0))

\* part_002 lines 69-80: the writer is handed p[:n] with n still 0
LightWrite(t, d, p) ==
    /\ dfiles[d].used /\ dfiles[d].backend = "lightfs"
    /\ UNCHANGED <<dfiles, term>>
    /\ IF Len(p) = 0
       THEN /\ DevCall(t, Args(<<>>, <<>>, NoFlag, d, p, 0),
                       Result("light.write", "OK", 0, d, <<>>, <<>>, 0))
            /\ UNCHANGED light
       ELSE LET n == 0
                sent == SubSeq(p, 1, n)
            IN  /\ light' = [light EXCEPT !.out = @ \o sent]
                /\ DevCall(t, Args(<<>>, <<>>, NoFlag, d, p, 0),
                           Result("light.write", "OK", Len(sent), d, sent, <<>>, 0))

\* part_002 lines 86-100, under rmu and wmu
LightClose(t, d) ==
    /\ dfiles[d].used /\ dfiles[d].backend = "lightfs"
    /\ UNCHANGED tvars
    /\ IF ~dfiles[d].open
       THEN /\ DevCall(t, Args(<<>>, <<>>, NoFlag, d, <<>>, 0),
                       Result("light.close", "EBADF", 0, d, <<>>, <<>>, 0))
            /\ UNCHANGED dfiles
       ELSE /\ dfiles' = [dfiles EXCEPT ![d].open = FALSE, ![d].fin = @ + 1]
            /\ DevCall(t, Args(<<>>, <<>>, NoFlag, d, <<>>, 0),
                       Result("light.close", "OK", 0, d, <<>>, <<>>, 1))

\* flag & mask # 0 for the access-mode bits of flag (0, 1 or 2)
HasBits(v, mask) ==
    \/ v % 2 = 1 /\ mask % 2 = 1
    \/ (v \div 2) % 2 = 1 /\ (mask \div 2) % 2 = 1

\* fs_thumb.go lines 17-54: the mode passed to SYS_OPEN.  The cases of the
\* switch are tried in order; flag&syscall.O_RDONLY is flag&0
hostMode(name, flag) ==
    LET cta == <<flag.creat, flag.trunc, flag.append>>
        mode ==
            IF HasBits(flag.rdwr, O_RDONLY) THEN 1
            ELSE IF HasBits(flag.rdwr, O_RDWR)
            THEN (IF cta = <<FALSE, FALSE, FALSE>> THEN 3
                  ELSE IF cta = <<TRUE, TRUE, FALSE>> THEN 7
                  ELSE IF cta = <<TRUE, FALSE, TRUE>> THEN 11
                  ELSE 0)
            ELSE IF HasBits(flag.rdwr, O_WRONLY)
            THEN (IF cta = <<TRUE, TRUE, FALSE>> THEN 5
                  ELSE IF cta = <<TRUE, FALSE, TRUE>> THEN 9
                  ELSE 0)
            ELSE 0
    IN  IF name = <<":stderr">> THEN 8
        ELSE IF name = <<":stdout">> THEN 4
        ELSE IF name = <<":stdin">> THEN 0
        ELSE mode

(***************************************************************************)
(* semihostfs, the file of part_000 lines 1-160 with the mutex mt, and the *)
(* open of fs_thumb.go, host call by host call.  The host keeps one errno: *)
(* a failed call sets it and call 0x13 reads it.  A call is at so_err,     *)
(* sc_err, ss_err, sw_err or sf_err between its failed open, close, seek,  *)
(* write or flen and its errno query, and at sa_read or sa_write between   *)
(* the seek and the read or write of a ReadAt or WriteAt.                  *)
(***************************************************************************)
\* the errnos the host answers with
Errnos == {2, 9}

\* part_000 lines 29-33, 76-80, 103-108, 138-143: mt is held from the host
\* call to the errno query
MtHeldAt(p) == p \in {"sc_err", "ss_err", "sw_err", "sf_err"}
MtFree == \A u \in threads : ~MtHeldAt(pc[u])

\* the first and the later steps of a call of semihostfs, its return, and a
\* call that returns at once
HostStart(t, a, label, l) ==
    /\ Idle(t)
    /\ Begin(t, a)
    /\ pc' = [pc EXCEPT ![t] = label]
    /\ loc' = [loc EXCEPT ![t] = l]
    /\ UNCHANGED <<nodes, size, items, maxSize, handles, res, threads, budget, dirRev, term,
                   light>>
HostStep(t, label, l) ==
    /\ pc' = [pc EXCEPT ![t] = label]
    /\ loc' = [loc EXCEPT ![t] = l]
    /\ UNCHANGED <<nodes, size, items, maxSize, handles, res, pre, arg, nops, threads, budget,
                   dirRev, term, light>>
HostEnd(t, r) ==
    /\ pc' = [pc EXCEPT ![t] = "idle"]
    /\ loc' = [loc EXCEPT ![t] = NoLoc]
    /\ res' = [res EXCEPT ![t] = r]
    /\ UNCHANGED <<nodes, size, items, maxSize, handles, pre, arg, nops, threads, budget,
                   dirRev, term, light>>
HostDone(t, a, r) ==
    /\ Idle(t)
    /\ Begin(t, a)
    /\ res' = [res EXCEPT ![t] = r]
    /\ UNCHANGED <<nodes, size, items, maxSize, handles, pc, loc, threads, budget, dirRev,
                   term, light>>

\* host call 0x06 on descriptor d with a buffer of k bytes: the host after
\* it and the bytes read
hostRead(h, d, k) ==
    LET n == Min(k, Len(h.data) - h.pos[d])
    IN  [host |-> [h EXCEPT !.pos[d] = @ + n],
         data |-> SubSeq(h.data, h.pos[d] + 1, h.pos[d] + n)]
\* host call 0x05 on descriptor d that writes all of p
hostWrite(h, d, p) ==
    [h EXCEPT !.data = SubSeq(@, 1, h.pos[d]) \o p
                           \o SubSeq(@, h.pos[d] + Len(p) + 1, Len(@)),
              !.pos[d] = @ + Len(p)]

\* fs_thumb.go lines 65-72: host call 0x01, outside mt; fd is its answer
SemiOpenCall(t, name, flag, fd) ==
    LET a == Args(name, <<>>, flag, NIL, <<>>, 0)
    IN  IF fd = -1
        THEN /\ \E e \in Errnos :
                   /\ host' = [host EXCEPT !.errno = e]
                   /\ HostStart(t, a, "so_err", [NoLoc EXCEPT !.i = e])
             /\ UNCHANGED dfiles
        ELSE /\ DevLeft
             /\ dfiles' = [dfiles EXCEPT ![NewDev] =
                              [NoDev EXCEPT !.used = TRUE, !.backend = "semihostfs",
                                            !.flag = flag, !.open = TRUE]]
             /\ host' = [host EXCEPT !.pos[NewDev] = 0]
             /\ HostDone(t, a, Result("semi.open", "OK", hostMode(name, flag), NewDev,
                                      <<>>, <<>>, 0))
\* fs_thumb.go lines 67-68: err = hostError(); the result carries the errno in n
SemiOpenErrno(t) ==
    /\ t \in threads /\ pc[t] = "so_err"
    /\ HostEnd(t, Result("semi.open", "EHOST", host.errno, NIL, <<>>, arg[t].path, 0))
    /\ UNCHANGED <<host, dfiles>>

\* part_000 lines 24-40: Close; rc is the answer of host call 0x02
SemiCloseCall(t, d, rc) ==
    /\ dfiles[d].used /\ dfiles[d].backend = "semihostfs"
    /\ LET a == Args(<<>>, <<>>, NoFlag, d, <<>>, 0)
       IN  IF ~dfiles[d].open
           THEN /\ HostDone(t, a, Result("semi.close", "EBADF", 0, d, <<>>, <<>>, 0))
                /\ UNCHANGED <<host, dfiles>>
           ELSE IF rc = -1
           THEN /\ MtFree
                /\ \E e \in Errnos :
                      /\ host' = [host EXCEPT !.errno = e]
                      /\ HostStart(t, a, "sc_err", [NoLoc EXCEPT !.i = e])
                /\ UNCHANGED dfiles
           ELSE /\ MtFree
                /\ dfiles' = [dfiles EXCEPT ![d].open = FALSE, ![d].fin = @ + 1]
                /\ HostDone(t, a, Result("semi.close", "OK", 0, d, <<>>, <<>>, 1))
                /\ UNCHANGED host

\* part_000 lines 48-69: Read into a buffer of k bytes
SemiRead(t, d, k) ==
    /\ dfiles[d].used /\ dfiles[d].backend = "semihostfs"
    /\ UNCHANGED dfiles
    /\ LET a == Args(<<>>, <<>>, NoFlag, d, <<>>, k)
           r == hostRead(host, d, k)
       IN  IF ~dfiles[d].open
           THEN /\ HostDone(t, a, Result("semi.read", "EBADF", 0, d, <<>>, <<>>, 0))
                /\ UNCHANGED host
           ELSE IF k = 0
           THEN /\ HostDone(t, a, Result("semi.read", "OK", 0, d, <<>>, <<>>, 0))
                /\ UNCHANGED host
           ELSE /\ MtFree
                /\ host' = r.host
                /\ HostDone(t, a, Result("semi.read", IF r.data = <<>> THEN "EOF" ELSE "OK",
                                         Len(r.data), d, r.data, <<>>, 0))

\* part_000 lines 91-119: Write; ok says that the host wrote all of p
SemiWrite(t, d, p, ok) ==
    /\ dfiles[d].used /\ dfiles[d].backend = "semihostfs"
    /\ UNCHANGED dfiles
    /\ LET a == Args(<<>>, <<>>, NoFlag, d, p, 0)
       IN  IF ~dfiles[d].open
           THEN /\ HostDone(t, a, Result("semi.write", "EBADF", 0, d, <<>>, <<>>, 0))
                /\ UNCHANGED host
           ELSE IF Len(p) = 0
           THEN /\ HostDone(t, a, Result("semi.write", "OK", 0, d, <<>>, <<>>, 0))
                /\ UNCHANGED host
           ELSE IF ok
           THEN /\ MtFree
                /\ host' = hostWrite(host, d, p)
                /\ HostDone(t, a, Result("semi.write", "OK", Len(p), d, p, <<>>, 0))
           ELSE /\ MtFree
                /\ \E e \in Errnos :
                      /\ host' = [host EXCEPT !.errno = e]
                      /\ HostStart(t, a, "sw_err", [NoLoc EXCEPT !.i = e])

\* part_000 lines 133-153: Stat; ok says that host call 0x0c answered
SemiStat(t, d, ok) ==
    /\ dfiles[d].used /\ dfiles[d].backend = "semihostfs"
    /\ UNCHANGED dfiles
    /\ LET a == Args(<<>>, <<>>, NoFlag, d, <<>>, 0)
       IN  IF ~dfiles[d].open
           THEN /\ HostDone(t, a, Result("semi.stat", "EBADF", 0, d, <<>>, <<>>, 0))
                /\ UNCHANGED host
           ELSE IF ok
           THEN /\ MtFree
                /\ HostDone(t, a, Result("semi.stat", "OK", Len(host.data), d, <<>>, <<>>, 0))
                /\ UNCHANGED host
           ELSE /\ MtFree
                /\ \E e \in Errnos :
                      /\ host' = [host EXCEPT !.errno = e]
                      /\ HostStart(t, a, "sf_err", [NoLoc EXCEPT !.i = e])

\* part_000 lines 71-82: seek, host call 0x0a, for the call with arguments a
\* that goes on at label; the host refuses a descriptor that is closed
SemiSeek(t, a, off, ok, label) ==
    /\ dfiles[a.h].used /\ dfiles[a.h].backend = "semihostfs"
    /\ ok => dfiles[a.h].open
    /\ MtFree
    /\ UNCHANGED dfiles
    /\ IF ok
       THEN /\ host' = [host EXCEPT !.pos[a.h] = off]
            /\ HostStart(t, a, label, NoLoc)
       ELSE \E e \in Errnos :
               /\ host' = [host EXCEPT !.errno = e]
               /\ HostStart(t, a, "ss_err", [NoLoc EXCEPT !.i = e])
\* part_000 lines 84-87: ReadAt, which carries off in p
SemiReadAtSeek(t, d, k, off, ok) ==
    SemiSeek(t, Args(<<>>, <<>>, NoFlag, d, <<off>>, k), off, ok, "sa_read")
\* part_000 line 88: return f.Read(p)
SemiReadAtRead(t) ==
    /\ t \in threads /\ pc[t] = "sa_read"
    /\ UNCHANGED dfiles
    /\ LET d == arg[t].h
           r == hostRead(host, d, arg[t].k)
       IN  IF ~dfiles[d].open
           THEN /\ HostEnd(t, Result("semi.read", "EBADF", 0, d, <<>>, <<>>, 0))
                /\ UNCHANGED host
           ELSE IF arg[t].k = 0
           THEN /\ HostEnd(t, Result("semi.read", "OK", 0, d, <<>>, <<>>, 0))
                /\ UNCHANGED host
           ELSE /\ MtFree
                /\ host' = r.host
                /\ HostEnd(t, Result("semi.read", IF r.data = <<>> THEN "EOF" ELSE "OK",
                                     Len(r.data), d, r.data, <<>>, 0))
\* part_000 lines 121-124: WriteAt, which carries off in k
SemiWriteAtSeek(t, d, p, off, ok) ==
    SemiSeek(t, Args(<<>>, <<>>, NoFlag, d, p, off), off, ok, "sa_write")
\* part_000 line 125: return f.Write(p)
SemiWriteAtWrite(t, ok) ==
    /\ t \in threads /\ pc[t] = "sa_write"
    /\ UNCHANGED dfiles
    /\ LET d == arg[t].h
           p == arg[t].p
       IN  IF ~dfiles[d].open
           THEN /\ HostEnd(t, Result("semi.write", "EBADF", 0, d, <<>>, <<>>, 0))
                /\ UNCHANGED host
           ELSE IF Len(p) = 0
           THEN /\ HostEnd(t, Result("semi.write", "OK", 0, d, <<>>, <<>>, 0))
                /\ UNCHANGED host
           ELSE IF ok
           THEN /\ MtFree
                /\ host' = hostWrite(host, d, p)
                /\ HostEnd(t, Result("semi.write", "OK", Len(p), d, p, <<>>, 0))
           ELSE /\ MtFree
                /\ \E e \in Errnos :
                      /\ host' = [host EXCEPT !.errno = e]
                      /\ HostStep(t, "sw_err", [NoLoc EXCEPT !.i = e])

\* part_001 lines 27-29 under mt: hostError() after a failed close, seek,
\* write or flen, then mt.Unlock() and the return; the result carries the
\* errno in n
SemiErrno(t) ==
    /\ t \in threads /\ MtHeldAt(pc[t])
    /\ UNCHANGED host
    /\ LET d == arg[t].h
           op == IF pc[t] = "sc_err" THEN "semi.close"
                 ELSE IF pc[t] = "ss_err" THEN "semi.seek"
                 ELSE IF pc[t] = "sw_err" THEN "semi.write"
                 ELSE "semi.stat"
       IN  /\ dfiles' = IF pc[t] = "sc_err"
                        THEN [dfiles EXCEPT ![d].open = FALSE, ![d].fin = @ + 1]
                        ELSE dfiles
           /\ HostEnd(t, Result(op, "EHOST", host.errno, d, <<>>, <<>>,
                                IF pc[t] = "sc_err" THEN 1 ELSE 0))

\* fs_thumb.go lines 16-72: the host answers SYS_OPEN with a descriptor or
\* with -1, and the error return leaves closed uncalled.  The result carries
\* the mode that was passed to the host in n
SemiOpen(t, name, flag, fd) ==
    /\ UNCHANGED tvars
    /\ IF fd = -1
       THEN /\ DevCall(t, Args(name, <<>>, flag, NIL, <<>>, 0),
                       Result("semi.open", "EHOST", hostMode(name, flag), NIL, <<>>, name, 0))
            /\ UNCHANGED dfiles
       ELSE /\ DevLeft
            /\ dfiles' = [dfiles EXCEPT ![NewDev] =
                             [NoDev EXCEPT !.used = TRUE, !.backend = "semihostfs",
                                           !.flag = flag, !.open = TRUE]]
            /\ DevCall(t, Args(name, <<>>, flag, NIL, <<>>, 0),
                       Result("semi.open", "OK", hostMode(name, flag), NewDev, <<>>, <<>>, 0))

\* part_000 lines 182-189: the host answers SYS_CLOSE with 0 or -1; f.closed()
\* is called with no nil test, so a second Close calls a nil func and panics
SemiClose(t, d, rc) ==
    /\ UNCHANGED tvars
    /\ dfiles[d].used /\ dfiles[d].backend = "semihostfs"
    /\ IF ~dfiles[d].open
       THEN /\ DevCall(t, Args(<<>>, <<>>, NoFlag, d, <<>>, 0),
                       Result("semi.close", "PANIC", 0, d, <<>>, <<>>, 0))
            /\ UNCHANGED dfiles
       ELSE /\ dfiles' = [dfiles EXCEPT ![d].open = FALSE, ![d].fin = @ + 1]
            /\ DevCall(t, Args(<<>>, <<>>, NoFlag, d, <<>>, 0),
                       Result("semi.close", IF rc = -1 THEN "EHOST" ELSE "OK",
                              0, d, <<>>, <<>>, 1))

NextOn(paths, rpaths, flags, bufs, lens) ==
    \/ \E t \in Threads, path \in paths, flag \in flags : OpenStart(t, path, flag)
    \/ \E t \in Threads : OpenTrunc(t)
    \/ \E t \in Threads : OpenFindDir(t)
    \/ \E t \in Threads : OpenFind2(t)
    \/ \E t \in Threads : OpenCharge(t)
    \/ \E t \in Threads : OpenRollback(t)
    \/ \E t \in Threads : OpenItems(t)
    \/ \E t \in Threads : OpenLink(t)
    \/ \E t \in Threads, path \in paths : MkdirStart(t, path)
    \/ \E t \in Threads : MkdirCharge(t)
    \/ \E t \in Threads : MkdirRollback(t)
    \/ \E t \in Threads : MkdirItems(t)
    \/ \E t \in Threads : MkdirLink(t)
    \/ \E t \in Threads, path \in paths : RemoveStart(t, path)
    \/ \E t \in Threads : RemoveUnlink(t)
    \/ \E t \in Threads : RemoveItems(t)
    \/ \E t \in Threads : RemoveSize(t)
    \/ \E t \in Threads, oldname \in rpaths, newname \in rpaths :
          RenameStart(t, oldname, newname)
    \/ \E t \in Threads : RenameUnlink(t)
    \/ \E t \in Threads : RenameFindDir(t)
    \/ \E t \in Threads : RenameLink(t)
    \/ \E t \in Threads : RenameRelink(t)
    \/ \E t \in Threads, h \in HandleIds, k \in lens : Read(t, h, k)
    \/ \E t \in Threads, h \in HandleIds, p \in bufs : Write(t, h, p)
    \/ \E t \in Threads : WriteRollback(t)
    \/ \E t \in Threads, h \in HandleIds : Close(t, h)

Next == NextOn(Paths, TreePaths, Flags, WriteBufs, ReadLens)

\* the calls two concurrent threads make
PathsC == { <<"a">>, <<"a", "b">> }
FlagsC ==
    { Flag(O_RDONLY, FALSE, FALSE, FALSE, FALSE),
      Flag(O_WRONLY, TRUE, FALSE, FALSE, FALSE),
      Flag(O_WRONLY, FALSE, FALSE, TRUE, FALSE) }
NextC == NextOn(PathsC, PathsC, FlagsC, {WriteBuf(10, 1)}, {4})

Spec == Init /\ [][Next]_vars
SpecC == InitC /\ [][NextC]_vars

\* the life of a handle: one thread, or two threads with a smaller budget,
\* over either revision of the dir handle
PathsH == { DotPath, <<"a">>, <<"b">> }
FlagsH ==
    { Flag(O_RDONLY, FALSE, FALSE, FALSE, FALSE),
      Flag(O_RDWR, TRUE, FALSE, TRUE, FALSE) }
InitH ==
    /\ \E ts \in {{1}, {1, 2}} : InitState(ts, IF ts = {1} THEN MaxOpsH ELSE MaxOpsH2)
    /\ dirRev \in DirRevs
NextH ==
    \/ \E t \in Threads, path \in PathsH, flag \in FlagsH : OpenStart(t, path, flag)
    \/ \E t \in Threads : OpenTrunc(t)
    \/ \E t \in Threads : OpenFindDir(t)
    \/ \E t \in Threads : OpenFind2(t)
    \/ \E t \in Threads : OpenCharge(t)
    \/ \E t \in Threads : OpenRollback(t)
    \/ \E t \in Threads : OpenItems(t)
    \/ \E t \in Threads : OpenLink(t)
    \/ \E t \in Threads, path \in PathsH : MkdirStart(t, path)
    \/ \E t \in Threads : MkdirCharge(t)
    \/ \E t \in Threads : MkdirRollback(t)
    \/ \E t \in Threads : MkdirItems(t)
    \/ \E t \in Threads : MkdirLink(t)
    \/ \E t \in Threads, path \in PathsH : RemoveStart(t, path)
    \/ \E t \in Threads : RemoveUnlink(t)
    \/ \E t \in Threads : RemoveItems(t)
    \/ \E t \in Threads : RemoveSize(t)
    \/ \E t \in Threads, h \in HandleIds : Read(t, h, 4)
    \/ \E t \in Threads, h \in HandleIds : Write(t, h, WriteBuf(10, MaxWriteLen))
    \/ \E t \in Threads : WriteRollback(t)
    \/ \E t \in Threads, h \in HandleIds : Stat(t, h)
    \/ \E t \in Threads, h \in HandleIds, k \in {0, 1} : ReadDir(t, h, k)
    \/ \E t \in Threads, h \in HandleIds : Close(t, h)
SpecH == InitH /\ [][NextH]_vars

\* two threads that open one file each and write to it and read it
PathsW == { <<"a">> }
FlagsW == { Flag(O_RDWR, TRUE, FALSE, FALSE, FALSE) }
InitW == InitWith({1, 2}, MaxOpsW)
NextW ==
    \/ \E t \in Threads, path \in PathsW, flag \in FlagsW : OpenStart(t, path, flag)
    \/ \E t \in Threads : OpenFindDir(t)
    \/ \E t \in Threads : OpenFind2(t)
    \/ \E t \in Threads : OpenCharge(t)
    \/ \E t \in Threads : OpenRollback(t)
    \/ \E t \in Threads : OpenItems(t)
    \/ \E t \in Threads : OpenLink(t)
    \/ \E t \in Threads, h \in HandleIds : ReadLock(t, h, 4)
    \/ \E t \in Threads : ReadCopy(t)
    \/ \E t \in Threads, h \in HandleIds, b \in {10, 20} : WriteLock(t, h, WriteBuf(b, MaxWriteLen))
    \/ \E t \in Threads : WriteByte(t)
    \/ \E t \in Threads : WriteRollback(t)
SpecW == InitW /\ [][NextW]_vars

\* semihostfs: every combination of the open flags, plain and sentinel names
NamesS == { <<"a">>, <<":stdin">>, <<":stdout">>, <<":stderr">> }
FlagsS ==
    { Flag(rw, c, FALSE, tr, ap) :
        rw \in {O_RDONLY, O_WRONLY, O_RDWR}, c \in BOOLEAN, tr \in BOOLEAN, ap \in BOOLEAN }
InitS == InitWith({1}, MaxOpsS)
NextS ==
    \/ \E t \in Threads, name \in NamesS, flag \in FlagsS, fd \in {-1, 3} :
          SemiOpen(t, name, flag, fd)
    \/ \E t \in Threads, d \in DevIds, rc \in {-1, 0} : SemiClose(t, d, rc)
SpecS == InitS /\ [][NextS]_vars

\* one thread on a LightFS whose terminal types two keys
InitL == InitWith({1}, MaxOpsL)
NextL ==
    \/ \E c \in {104, 105} : LightType(c)
    \/ \E t \in Threads, name \in {DotPath, <<"a">>} : LightOpen(t, name, NoFlag)
    \/ \E t \in Threads, d \in DevIds, k \in {0, 1, 4} : LightRead(t, d, k)
    \/ \E t \in Threads, d \in DevIds, p \in {WriteBuf(10, 0), WriteBuf(10, MaxWriteLen)} :
          LightWrite(t, d, p)
    \/ \E t \in Threads, d \in DevIds : LightClose(t, d)
SpecL == InitL /\ [][NextL]_vars

\* Write on a file that earlier Writes have grown: the file "a" holds cap
\* bytes in a capacity of cap, and its one handle stands at 0 or at the end
CapsG == {0, 48, 64, 224, 256, 320}
GrownFS(cap, pos) ==
    [size |-> emptyFileSize + cap,
     items |-> 1,
     nodes |-> [i \in NodeIds |->
                  IF i = Root THEN [RootNode EXCEPT !.list = 2]
                  ELSE IF i = 2
                  THEN [NewNode(TRUE, "a") EXCEPT !.buf = [j \in 1..cap |-> 0], !.len = cap]
                  ELSE NoNode],
     handles |-> [h \in HandleIds |->
                    IF h = 1
                    THEN [NoHandle EXCEPT !.used = TRUE, !.rdwr = O_RDWR, !.n = 2, !.pos = pos]
                    ELSE NoHandle]]
InitG ==
    /\ \E cap \in CapsG : \E pos \in {0, cap} :
          /\ nodes = GrownFS(cap, pos).nodes
          /\ handles = GrownFS(cap, pos).handles
          /\ size = GrownFS(cap, pos).size
          /\ items = GrownFS(cap, pos).items
          /\ pre = [t \in Threads |-> GrownFS(cap, pos)]
    /\ maxSize \in {emptyFileSize + 320, emptyFileSize + 1024}
    /\ dfiles = [d \in DevIds |-> NoDev]
    /\ term = TermNew
    /\ light = LightNew
    /\ host = HostNew
    /\ pc = [t \in Threads |-> "idle"]
    /\ loc = [t \in Threads |-> NoLoc]
    /\ res = [t \in Threads |-> NoRes]
    /\ arg = [t \in Threads |-> NoArgs]
    /\ nops = 0
    /\ threads = {1}
    /\ budget = MaxOpsG
    /\ dirRev = "part_004"
NextG ==
    \/ \E t \in Threads, h \in HandleIds, p \in WriteBufs : Write(t, h, p)
    \/ \E t \in Threads : WriteRollback(t)
SpecG == InitG /\ [][NextG]_vars

\* termfs in raw mode and its settings, one thread
FlagsT == { Flag(O_RDONLY, FALSE, FALSE, FALSE, FALSE), Flag(O_RDWR, FALSE, FALSE, FALSE, FALSE) }
BufsT == { <<>>, <<104>>, <<LF>>, <<104, LF>>, <<LF, LF>>, <<LF, 104, LF>>, <<104, LF, 105>> }
InitT == InitWith({1}, MaxOpsT)
NextT ==
    \/ \E key \in {<<104>>, <<CR>>} : TermType(key)
    \/ \E t \in Threads, flag \in FlagsT : TermOpen(t, DotPath, flag)
    \/ \E t \in Threads, d \in DevIds : TermClose(t, d)
    \/ \E t \in Threads, cmap \in {<<FALSE, FALSE>>, <<TRUE, TRUE>>} : SetCharMap(t, cmap)
    \/ \E t \in Threads : Echo(t)
    \/ \E t \in Threads, on \in BOOLEAN : SetEcho(t, on)
    \/ \E t \in Threads, enable \in BOOLEAN, maxLen \in {-1, 0} : SetLineMode(t, enable, maxLen)
    \/ \E t \in Threads, d \in DevIds, k \in {0, 2} : TermRead(t, d, k)
    \/ \E t \in Threads, d \in DevIds, p \in BufsT : TermWrite(t, d, p)
SpecT == InitT /\ [][NextT]_vars

\* termfs in cooked mode: the keys of the line editor, one thread with one
\* handle; the settings are made once, before the first key
KeysE ==
    { <<104>>, <<33>>, <<BS>>, <<DEL>>, <<esc, chBracket, chC>>, <<esc, chBracket, chD>>,
      <<esc, chBracket, chH>>, <<esc, chBracket, chF>>, <<LF>>, <<ETX>>, <<EOT>> }
InitE == InitWith({1}, MaxOpsE)
NextE ==
    \/ \E key \in KeysE : term.lineMode /\ TermType(key)
    \/ \E t \in Threads :
          /\ \A d \in DevIds : ~dfiles[d].used
          /\ TermOpen(t, DotPath, Flag(O_RDWR, FALSE, FALSE, FALSE, FALSE))
    \/ \E t \in Threads : ~term.lineMode /\ SetLineMode(t, TRUE, MaxLine)
    \/ \E t \in Threads : ~term.echo /\ term.typed = 0 /\ SetEcho(t, TRUE)
    \/ \E t \in Threads, d \in DevIds, k \in {1, 8} : TermRead(t, d, k)
SpecE == InitE /\ [][NextE]_vars

\* termfs in cooked mode with echo: every key of the line editor, typed once
\* the handle is open and line mode and echo are on; one thread
KeysA == KeysE \cup { <<esc, chBracket, chA>>, <<esc, chBracket, chB>> }
InitA == InitWith({1}, MaxOpsA)
NextA ==
    \/ \E key \in KeysA : term.lineMode /\ term.echo /\ TermType(key)
    \/ \E t \in Threads :
          /\ \A d \in DevIds : ~dfiles[d].used
          /\ TermOpen(t, DotPath, Flag(O_RDWR, FALSE, FALSE, FALSE, FALSE))
    \/ \E t \in Threads :
          /\ \E d \in DevIds : dfiles[d].used
          /\ ~term.lineMode
          /\ SetLineMode(t, TRUE, MaxLine)
    \/ \E t \in Threads : term.lineMode /\ ~term.echo /\ SetEcho(t, TRUE)
    \/ \E t \in Threads, d \in DevIds : TermRead(t, d, 8)
SpecA == InitA /\ [][NextA]_vars

\* termfs in cooked mode with echo: lines and the keys of the one-line
\* history, typed once the handle is open and line mode and echo are on
KeysY == { <<104>>, <<33>>, <<LF>>, <<EOT>>, <<esc, chBracket, chA>>, <<esc, chBracket, chB>> }
InitY == InitWith({1}, MaxOpsY)
NextY ==
    \/ \E key \in KeysY : term.lineMode /\ term.echo /\ TermTypeUpTo(key, MaxKeysY)
    \/ \E t \in Threads :
          /\ \A d \in DevIds : ~dfiles[d].used
          /\ TermOpen(t, DotPath, Flag(O_RDWR, FALSE, FALSE, FALSE, FALSE))
    \/ \E t \in Threads :
          /\ \E d \in DevIds : dfiles[d].used
          /\ ~term.lineMode
          /\ SetLineMode(t, TRUE, MaxLine)
    \/ \E t \in Threads : term.lineMode /\ ~term.echo /\ SetEcho(t, TRUE)
    \/ \E t \in Threads, d \in DevIds : TermRead(t, d, 8)
SpecY == InitY /\ [][NextY]_vars

\* termfs with its two mutexes: Read, Write, Close and the calls that
\* configure the FS, step by step on two threads
KeysK == { <<104>>, <<LF>>, <<ETX>> }
InitK == InitWith({1, 2}, MaxOpsK)
NextK ==
    \/ \E key \in KeysK :
          /\ \E d \in DevIds : dfiles[d].used
          /\ TermTypeUpTo(key, MaxKeysK)
    \/ \E t \in Threads :
          /\ \A d \in DevIds : ~dfiles[d].used
          /\ TermOpen(t, DotPath, Flag(O_RDWR, FALSE, FALSE, FALSE, FALSE))
    \/ \E t \in Threads :
          /\ \E d \in DevIds : dfiles[d].used
          /\ ~term.lineMode
          /\ Free("rlock")
          /\ SetLineMode(t, TRUE, MaxLine)
    \/ \E t \in Threads :
          /\ \E d \in DevIds : dfiles[d].used
          /\ ~term.echo
          /\ Free("rlock")
          /\ SetEcho(t, TRUE)
    \/ \E t \in Threads : ~term.outLFCRLF /\ SetCharMapLock(t, <<FALSE, TRUE>>)
    \/ \E t \in Threads : SetCharMapLock2(t)
    \/ \E t \in Threads : SetCharMapEnd(t)
    \/ \E t \in Threads, d \in DevIds : TermCloseLock(t, d)
    \/ \E t \in Threads : TermCloseLock2(t)
    \/ \E t \in Threads : TermCloseEnd(t)
    \/ \E t \in Threads, d \in DevIds : TermWriteLock(t, d, <<LF>>)
    \/ \E t \in Threads : TermWriteEnd(t)
    \/ \E t \in Threads, d \in DevIds : TermReadLock(t, d, 8)
    \/ \E t \in Threads : TermReadEnter(t)
    \/ \E t \in Threads : TermReadKey(t)
    \/ \E t \in Threads : TermReadEchoed(t)
    \/ \E t \in Threads : TermReadEcho(t)
SpecK == InitK /\ [][NextK]_vars

\* ramfs with the locks of find and ReadDir: a directory, a file in it, the
\* lookups and the listing of both, Remove and Rename, on two threads.  A
\* call that links or unlinks waits for the readers of its directory
PathsP == { <<"d">>, <<"d", "a">> }
InitP == InitWith({1, 2}, MaxOpsP)
NextP ==
    \/ \E t \in Threads :
          OpenStart(t, <<"d", "a">>, Flag(O_WRONLY, TRUE, FALSE, FALSE, FALSE))
    \/ \E t \in Threads : OpenFindDir(t)
    \/ \E t \in Threads : OpenFind2(t)
    \/ \E t \in Threads : OpenCharge(t)
    \/ \E t \in Threads : OpenRollback(t)
    \/ \E t \in Threads : OpenItems(t)
    \/ \E t \in Threads : ~RLocked(loc[t].dir) /\ OpenLink(t)
    \/ \E t \in Threads : MkdirStart(t, <<"d">>)
    \/ \E t \in Threads : MkdirCharge(t)
    \/ \E t \in Threads : MkdirRollback(t)
    \/ \E t \in Threads : MkdirItems(t)
    \/ \E t \in Threads : ~RLocked(loc[t].dir) /\ MkdirLink(t)
    \/ \E t \in Threads : RemoveStart(t, <<"d", "a">>)
    \/ \E t \in Threads : ~RLocked(loc[t].dir) /\ RemoveUnlink(t)
    \/ \E t \in Threads : RemoveItems(t)
    \/ \E t \in Threads : RemoveSize(t)
    \/ \E t \in Threads, newname \in { <<"a">>, <<"x", "a">> } :
          RenameStart(t, <<"d", "a">>, newname)
    \/ \E t \in Threads : ~RLocked(loc[t].dir) /\ RenameUnlink(t)
    \/ \E t \in Threads : RenameFindDir(t)
    \/ \E t \in Threads : ~RLocked(loc[t].dir) /\ RenameLink(t)
    \/ \E t \in Threads : ~RLocked(loc[t].dir) /\ RenameRelink(t)
    \/ \E t \in Threads, path \in PathsP : WalkLock(t, path)
    \/ \E t \in Threads : WalkStep(t)
    \/ \E t \in Threads : WalkInner(t)
    \/ \E t \in Threads, h \in HandleIds : DirLock(t, h, 0)
    \/ \E t \in Threads : DirNodeLock(t)
    \/ \E t \in Threads : DirStat(t)
    \/ \E t \in Threads : DirStatDone(t)
    \/ \E t \in Threads, h \in HandleIds : Close(t, h)
SpecP == InitP /\ [][NextP]_vars

\* semihostfs host call by host call: one descriptor that two threads share,
\* and opens that the host refuses
InitX == InitWith({1, 2}, MaxOpsX)
NextX ==
    \/ \E t \in Threads, fd \in {-1, 0} :
          /\ fd = 0 => \A d \in DevIds : ~dfiles[d].used
          /\ SemiOpenCall(t, <<"a">>, Flag(O_RDWR, FALSE, FALSE, FALSE, FALSE), fd)
    \/ \E t \in Threads : SemiOpenErrno(t)
    \/ \E t \in Threads, d \in DevIds, rc \in {-1, 0} : SemiCloseCall(t, d, rc)
    \/ \E t \in Threads : SemiErrno(t)
    \/ \E t \in Threads, d \in DevIds : SemiRead(t, d, 1)
    \/ \E t \in Threads, d \in DevIds, ok \in BOOLEAN : SemiWrite(t, d, <<5>>, ok)
    \/ \E t \in Threads, d \in DevIds, ok \in BOOLEAN : SemiStat(t, d, ok)
    \/ \E t \in Threads, d \in DevIds, off \in {0, 2}, ok \in BOOLEAN :
          SemiReadAtSeek(t, d, 1, off, ok)
    \/ \E t \in Threads : SemiReadAtRead(t)
    \/ \E t \in Threads, d \in DevIds, off \in {0, 2}, ok \in BOOLEAN :
          SemiWriteAtSeek(t, d, <<5>>, off, ok)
    \/ \E t \in Threads, ok \in BOOLEAN : SemiWriteAtWrite(t, ok)
SpecX == InitX /\ [][NextX]_vars

\* ramfs with room for one file and one step of its capacity: a file is
\* made and written while a directory is made, on two threads
InitQ == InitSized({1, 2}, MaxOpsQ, {emptyFileSize + 16}) /\ dirRev = "part_004"
NextQ ==
    \/ \E t \in Threads : OpenStart(t, <<"a">>, Flag(O_WRONLY, TRUE, FALSE, FALSE, FALSE))
    \/ \E t \in Threads : OpenFindDir(t)
    \/ \E t \in Threads : OpenFind2(t)
    \/ \E t \in Threads : OpenCharge(t)
    \/ \E t \in Threads : OpenRollback(t)
    \/ \E t \in Threads : OpenItems(t)
    \/ \E t \in Threads : OpenLink(t)
    \/ \E t \in Threads : MkdirStart(t, <<"b">>)
    \/ \E t \in Threads : MkdirCharge(t)
    \/ \E t \in Threads : MkdirRollback(t)
    \/ \E t \in Threads : MkdirItems(t)
    \/ \E t \in Threads : MkdirLink(t)
    \/ \E t \in Threads, h \in HandleIds : Write(t, h, WriteBuf(10, 1))
    \/ \E t \in Threads : WriteRollback(t)
SpecQ == InitQ /\ [][NextQ]_vars

\* ramfs with every lock of its calls, on two threads that are scheduled
\* fairly: a call that can take its next step takes it in the end
SizesV == { 2 * emptyFileSize + 8, 3 * emptyFileSize + 16 }
InitV == InitSized({1, 2}, MaxOpsV, SizesV) /\ dirRev = "part_004"
StartV(t) ==
    \/ OpenStart(t, DotPath, Flag(O_RDONLY, FALSE, FALSE, FALSE, FALSE))
    \/ OpenStart(t, <<"d", "a">>, Flag(O_RDWR, TRUE, FALSE, FALSE, FALSE))
    \/ WalkLock(t, <<"d", "a">>)
    \/ MkdirStart(t, <<"d">>)
    \/ RemoveStart(t, <<"d", "a">>)
    \/ \E newname \in { <<"a">>, <<"x", "a">> } : RenameStart(t, <<"d", "a">>, newname)
    \/ \E h \in HandleIds : DirLock(t, h, 0)
    \/ \E h \in HandleIds : Stat(t, h)
    \/ \E h \in HandleIds : ReadLock(t, h, 4)
    \/ \E h \in HandleIds : WriteLock(t, h, WriteBuf(10, 1))
    \/ \E h \in HandleIds : Close(t, h)
StepV(t) ==
    \/ OpenFindDir(t)
    \/ OpenFind2(t)
    \/ OpenCharge(t)
    \/ OpenRollback(t)
    \/ OpenItems(t)
    \/ ~RLocked(loc[t].dir) /\ OpenLink(t)
    \/ MkdirCharge(t)
    \/ MkdirRollback(t)
    \/ MkdirItems(t)
    \/ ~RLocked(loc[t].dir) /\ MkdirLink(t)
    \/ ~RLocked(loc[t].dir) /\ RemoveUnlink(t)
    \/ RemoveItems(t)
    \/ RemoveSize(t)
    \/ ~RLocked(loc[t].dir) /\ RenameUnlink(t)
    \/ RenameFindDir(t)
    \/ ~RLocked(loc[t].dir) /\ RenameLink(t)
    \/ ~RLocked(loc[t].dir) /\ RenameRelink(t)
    \/ WalkStep(t)
    \/ WalkInner(t)
    \/ DirNodeLock(t)
    \/ DirStat(t)
    \/ DirStatDone(t)
    \/ ReadCopy(t)
    \/ WriteByte(t)
    \/ WriteRollback(t)
NextV == \E t \in Threads : StartV(t) \/ StepV(t)
SpecV == InitV /\ [][NextV]_vars /\ \A t \in Threads : WF_vars(StepV(t))

\* OpenWithFinalizer and Close of the three file systems, two threads
PathsD == { DotPath, <<"a">> }
FlagsD ==
    { Flag(O_RDONLY, FALSE, FALSE, FALSE, FALSE),
      Flag(O_RDWR, TRUE, FALSE, FALSE, FALSE) }
InitD == InitWith({1, 2}, MaxOpsD)
NextD ==
    \/ \E t \in Threads, path \in PathsD, flag \in FlagsD : OpenStart(t, path, flag)
    \/ \E t \in Threads : OpenFindDir(t)
    \/ \E t \in Threads : OpenFind2(t)
    \/ \E t \in Threads : OpenCharge(t)
    \/ \E t \in Threads : OpenRollback(t)
    \/ \E t \in Threads : OpenItems(t)
    \/ \E t \in Threads : OpenLink(t)
    \/ \E t \in Threads, h \in HandleIds : Close(t, h)
    \/ \E t \in Threads, name \in PathsD, flag \in FlagsD : TermOpen(t, name, flag)
    \/ \E t \in Threads, d \in DevIds : TermClose(t, d)
    \/ \E t \in Threads, name \in PathsD, flag \in FlagsD, fd \in {-1, 3} :
          SemiOpen(t, name, flag, fd)
    \/ \E t \in Threads, d \in DevIds, rc \in {-1, 0} : SemiClose(t, d, rc)
SpecD == InitD /\ [][NextD]_vars

(***************************************************************************)
(* What the claims speak of.                                               *)
(***************************************************************************)
\* no call is in progress
Quiescent == \A t \in threads : pc[t] = "idle"

\* thread t's last call was op and has returned
Done(t, op) == t \in threads /\ pc[t] = "idle" /\ res[t].op = op

\* Usage(): items, -1, size, maxSize (ramfs.go lines 797-800)
Usage == <<items, -1, size, maxSize>>

Children(ns, d) == { ListOf(ns, ns[d].list)[i] : i \in 1..Len(ListOf(ns, ns[d].list)) }

\* the nodes reachable from S through at most k child lists
RECURSIVE Reach(_, _, _)
Reach(ns, S, k) ==
    IF k = 0 THEN S
    ELSE Reach(ns, S \cup UNION { Children(ns, d) : d \in { e \in S : ~ns[e].isFile } }, k - 1)

\* the live nodes: the nodes other than the root that the root reaches
Live(ns) == Reach(ns, {Root}, Cardinality(NodeIds)) \ {Root}

RECURSIVE SumSizes(_, _)
SumSizes(ns, S) ==
    IF S = {} THEN 0
    ELSE LET n == CHOOSE m \in S : TRUE IN sizeOf(ns, n) + SumSizes(ns, S \ {n})

Max(a, b) == IF a > b THEN a ELSE b

(***************************************************************************)
(* C1: once no operation is in progress, used_bytes is the sum over the    *)
(* live nodes of EMPTY_FILE_SIZE + cap(bytes) per file and DIR_SIZE per    *)
(* directory.                                                              *)
(***************************************************************************)
C1_UsedBytesIsLiveSum == Quiescent => size = SumSizes(nodes, Live(nodes))

(***************************************************************************)
(* C2: once no operation is in progress, items is the number of live       *)
(* non-root nodes, the nodes reachable from the root.                      *)
(***************************************************************************)
C2_ItemsIsLiveCount == Quiescent => items = Cardinality(Live(nodes))

(***************************************************************************)
(* C3: no directory has two children with the same name.                   *)
(***************************************************************************)
C3_ChildNamesUnique ==
    \A d \in NodeIds :
        LET l == ListOf(nodes, nodes[d].list)
        IN  \A i, j \in 1..Len(l) : i # j => nodes[l[i]].name # nodes[l[j]].name

(***************************************************************************)
(* C4: OpenWithFinalizer with O_CREAT and O_EXCL on a name that exists     *)
(* fails with EEXIST, returns no handle and leaves the file's content and  *)
(* Usage as they were.                                                     *)
(***************************************************************************)
C4_ExclOnExistingIsEEXIST ==
    \A t \in threads :
        ( /\ Done(t, "open")
          /\ arg[t].flag.creat /\ arg[t].flag.excl
          /\ ValidPath(arg[t].path) /\ arg[t].path # DotPath
          /\ find(pre[t].nodes, Root, arg[t].path) # NIL
          /\ pre[t].nodes[find(pre[t].nodes, Root, arg[t].path)].isFile )
        => ( /\ res[t].err = "EEXIST"
             /\ res[t].h = NIL
             /\ nodes = pre[t].nodes
             /\ size = pre[t].size /\ items = pre[t].items )

(***************************************************************************)
(* C5: bytes written through a writable handle are the bytes a later open  *)
(* reads at the offsets they were written to, then EOF.  Stated on the     *)
(* calls of one thread:                                                    *)
(*  - a successful Write of p at position pos leaves the file with p at    *)
(*    pos..pos+len(p), the bytes it had elsewhere (zeros where it had      *)
(*    none), and the handle at pos+len(p);                                 *)
(*  - an open of an existing file with O_TRUNC leaves it empty with the    *)
(*    handle at 0, with O_APPEND leaves its bytes and puts the handle at   *)
(*    their end, and otherwise leaves its bytes and puts the handle at 0;  *)
(*  - a Read at a position before the end returns the file's bytes from    *)
(*    that position, as many as fit, and advances by them; a Read at or    *)
(*    beyond the end returns EOF.                                          *)
(***************************************************************************)
WriteKeepsOffsets(t) ==
    LET f == pre[t].handles[arg[t].h]
        old == Data(pre[t].nodes[f.n])
        new == Data(nodes[f.n])
        p == arg[t].p
    IN  /\ Len(new) = Max(Len(old), f.pos + Len(p))
        /\ \A i \in 1..Len(new) :
              new[i] = IF i > f.pos /\ i <= f.pos + Len(p) THEN p[i - f.pos]
                       ELSE IF i <= Len(old) THEN old[i]
                       ELSE 0
        /\ handles[arg[t].h].pos = f.pos + Len(p)

OpenPositions(t) ==
    LET n == find(pre[t].nodes, Root, arg[t].path)
        f == handles[res[t].h]
    IN  (n # NIL /\ nodes[n].isFile) =>
            /\ f.n = n
            /\ IF arg[t].flag.trunc THEN Data(nodes[n]) = <<>> /\ f.pos = 0
               ELSE /\ Data(nodes[n]) = Data(pre[t].nodes[n])
                    /\ f.pos = IF arg[t].flag.append THEN Len(Data(nodes[n])) ELSE 0

ReadReturnsData(t) ==
    LET f == pre[t].handles[arg[t].h]
        data == Data(nodes[f.n])
    IN  (f.n # NIL /\ f.rdwr # O_WRONLY) =>
            IF f.pos >= Len(data)
            THEN res[t].err = "EOF" /\ res[t].n = 0 /\ handles[arg[t].h].pos = f.pos
            ELSE /\ res[t].err = "OK"
                 /\ res[t].n = Min(arg[t].k, Len(data) - f.pos)
                 /\ res[t].out = SubSeq(data, f.pos + 1, f.pos + res[t].n)
                 /\ handles[arg[t].h].pos = f.pos + res[t].n

C5_WriteThenReadRoundTrip ==
    \A t \in threads :
        /\ (Done(t, "write") /\ res[t].err = "OK") => WriteKeepsOffsets(t)
        /\ (Done(t, "open") /\ res[t].err = "OK" /\ arg[t].path # DotPath) => OpenPositions(t)
        /\ Done(t, "read") => ReadReturnsData(t)

\* a read-only handle opened after the write has read the two bytes written
C5_Witness ==
    \E t \in threads :
        /\ Done(t, "read") /\ res[t].err = "OK"
        /\ res[t].out = WriteBuf(10, 2)
        /\ handles[arg[t].h].rdwr = O_RDONLY

(***************************************************************************)
(* C6: Write on a handle opened without write access fails with ENOTSUP,   *)
(* writes 0 bytes and leaves the file, the handle and Usage as they were.  *)
(***************************************************************************)
C6_WriteOnReadOnlyIsENOTSUP ==
    \A t \in threads :
        ( /\ Done(t, "write")
          /\ pre[t].handles[arg[t].h].rdwr = O_RDONLY
          /\ pre[t].handles[arg[t].h].n # NIL )
        => ( /\ res[t].err = "ENOTSUP"
             /\ res[t].n = 0
             /\ nodes = pre[t].nodes /\ handles = pre[t].handles
             /\ size = pre[t].size /\ items = pre[t].items )

(***************************************************************************)
(* C7: after k bytes were written through one handle to a newly created    *)
(* empty file, the only node, used_bytes is EMPTY_FILE_SIZE + k and items  *)
(* is 1.                                                                   *)
(***************************************************************************)
\* thread t has written through the only handle ever returned, the handle
\* that created the only node ever allocated, which is still linked
WroteToOnlyFile(t) ==
    /\ Done(t, "write") /\ res[t].err = "OK"
    /\ { h \in HandleIds : handles[h].used } = {arg[t].h}
    /\ { n \in NodeIds : nodes[n].alloc } = {Root, handles[arg[t].h].n}
    /\ Live(nodes) = {handles[arg[t].h].n}

C8_OverwriteLeavesOnlyP ==
    \A t \in threads :
        ( /\ Done(t, "write") /\ res[t].err = "OK"
          /\ pre[t].handles[arg[t].h].rdwr = O_WRONLY
          /\ pre[t].handles[arg[t].h].pos = 0
          /\ Len(arg[t].p) > 0
          /\ Len(arg[t].p) < pre[t].nodes[pre[t].handles[arg[t].h].n].len )
        => ( /\ Data(nodes[pre[t].handles[arg[t].h].n]) = arg[t].p
             /\ size = pre[t].size )

(***************************************************************************)
(* C9: an operation that would push used_bytes above max_bytes fails with  *)
(* ENOSPC and leaves the state as it was before the call: a call returns   *)
(* ENOSPC exactly when its charge (EMPTY_FILE_SIZE for a created file,     *)
(* DIR_SIZE for Mkdir, the capacity added for a Write) does not fit, and   *)
(* then used_bytes, items, every node and every handle are unchanged, no   *)
(* handle is returned and 0 bytes are reported written.                    *)
(***************************************************************************)
\* what the call of t had to charge, given the state it started in
ChargeOf(t) ==
    IF res[t].op = "write"
    THEN LET f == pre[t].handles[arg[t].h]
             cap == Len(pre[t].nodes[f.n].buf)
         IN  IF f.rdwr # O_RDONLY /\ f.n # NIL /\ f.pos + Len(arg[t].p) > cap
             THEN newCap(f.pos + Len(arg[t].p), cap) - cap
             ELSE 0
    ELSE LET fd == findDir(pre[t].nodes, Root, arg[t].path)
             parentOk == /\ ValidPath(arg[t].path) /\ arg[t].path # DotPath
                         /\ fd.dir # NIL /\ ~pre[t].nodes[fd.dir].isFile
         IN  IF res[t].op = "mkdir" /\ parentOk THEN dirSize
             ELSE IF /\ res[t].op = "open" /\ arg[t].flag.creat /\ parentOk
                     /\ find(pre[t].nodes, Root, arg[t].path) = NIL
             THEN emptyFileSize
             ELSE 0

C9_ENOSPCLeavesState ==
    \A t \in threads :
        (t \in threads /\ pc[t] = "idle" /\ res[t].op \in {"open", "mkdir", "write"}) =>
            /\ res[t].err = "ENOSPC" <=> pre[t].size + ChargeOf(t) > maxSize
            /\ res[t].err = "ENOSPC" =>
                  /\ size = pre[t].size /\ items = pre[t].items
                  /\ nodes = pre[t].nodes /\ handles = pre[t].handles
                  /\ res[t].n = 0
                  /\ res[t].op = "open" => res[t].h = NIL

\* a Write that needed growth has failed with ENOSPC
C9_Witness ==
    \E t \in threads :
        /\ Done(t, "write") /\ res[t].err = "ENOSPC"
        /\ Len(arg[t].p) > 0
        /\ size > 0

(***************************************************************************)
(* C10: at every quiescent point 0 <= used_bytes <= max_bytes, under every *)
(* interleaving of the calls of two threads.                               *)
(***************************************************************************)
C10_UsedBytesWithinQuota == Quiescent => (0 <= size /\ size <= maxSize)

\* both threads have returned, one from a Remove and the other from a Write
\* through a handle to a file that is no longer linked
C10_Witness ==
    /\ Quiescent
    /\ \E t, u \in threads :
          /\ res[t].op = "write" /\ res[t].err = "OK" /\ Len(arg[t].p) > 0
          /\ handles[arg[t].h].n \notin Live(nodes)
          /\ res[u].op = "remove" /\ res[u].err = "OK"

(***************************************************************************)
(* C11: after a successful Rename(old, new) with old # new and no other    *)
(* call in progress, Open(old) fails with ENOENT (old names no node),      *)
(* Open(new) succeeds and reads the content the node had under old, and    *)
(* items and used_bytes are what they were before the Rename.              *)
(***************************************************************************)
C11_RenameMovesTheNode ==
    \A t \in threads :
        (Done(t, "rename") /\ res[t].err = "OK" /\ arg[t].path # arg[t].newpath) =>
            LET n == find(pre[t].nodes, Root, arg[t].path)
                m == find(nodes, Root, arg[t].newpath)
            IN  /\ find(nodes, Root, arg[t].path) = NIL
                /\ m # NIL
                /\ nodes[m].isFile = pre[t].nodes[n].isFile
                /\ Data(nodes[m]) = Data(pre[t].nodes[n])
                /\ size = pre[t].size /\ items = pre[t].items

(***************************************************************************)
(* C12: Rename(old, new) of an existing node is atomic for concurrent      *)
(* opens: at every instant of the Rename the node is found under one of    *)
(* the two names (an Open of old and an Open of new cannot both fail with  *)
(* ENOENT), and once it has returned no second node has the new name in    *)
(* the new parent.                                                         *)
(***************************************************************************)
RenamePcs == {"n_findDir", "n_link", "n_relink"}

C12_RenameIsAtomic ==
    \A t \in threads :
        /\ pc[t] \in RenamePcs =>
              \/ find(nodes, Root, arg[t].path) = loc[t].n
              \/ find(nodes, Root, arg[t].newpath) = loc[t].n
        /\ (Done(t, "rename") /\ res[t].err = "OK") =>
              LET fd == findDir(nodes, Root, arg[t].newpath)
              IN  (fd.dir # NIL /\ ~nodes[fd.dir].isFile) =>
                      Cardinality({ c \in Children(nodes, fd.dir) :
                                      nodes[c].name = fd.base[1] }) <= 1

(***************************************************************************)
(* C13: when Rename(old, new) fails after it has unlinked the source (the  *)
(* parent of new is missing or is a file), the source is linked back into  *)
(* its old parent under its old name: old names the same node with the     *)
(* same content, the live nodes, items and used_bytes are what they were.  *)
(***************************************************************************)
C13_FailedRenameRelinks ==
    \A t \in threads :
        ( /\ Done(t, "rename") /\ res[t].err # "OK"
          /\ find(pre[t].nodes, Root, arg[t].path) # NIL )
        => LET n == find(pre[t].nodes, Root, arg[t].path)
           IN  /\ find(nodes, Root, arg[t].path) = n
               /\ nodes[n].name = pre[t].nodes[n].name
               /\ Data(nodes[n]) = Data(pre[t].nodes[n])
               /\ Live(nodes) = Live(pre[t].nodes)
               /\ size = pre[t].size /\ items = pre[t].items

\* a Rename of an existing node has failed because the parent of new is a file
C13_Witness ==
    \E t \in threads :
        /\ Done(t, "rename") /\ res[t].err = "ENOTDIR"
        /\ find(pre[t].nodes, Root, arg[t].path) # NIL
        /\ find(nodes, Root, arg[t].path) # NIL

(***************************************************************************)
(* C17: after a successful Remove(name) the name is gone: a later Open     *)
(* without O_CREAT fails with ENOENT, as does a second Remove(name), which *)
(* leaves the nodes, items and used_bytes unchanged.                       *)
(***************************************************************************)
C17_RemoveTwiceIsENOENT ==
    \A t \in threads :
        /\ (Done(t, "remove") /\ res[t].err = "OK") =>
              find(nodes, Root, arg[t].path) = NIL
        /\ ( /\ Done(t, "remove")
             /\ ValidPath(arg[t].path) /\ arg[t].path # DotPath
             /\ find(pre[t].nodes, Root, arg[t].path) = NIL )
           => ( /\ res[t].err \in {"ENOENT", "ENOTDIR"}
                /\ nodes = pre[t].nodes
                /\ size = pre[t].size /\ items = pre[t].items )

(***************************************************************************)
(* C20: an open (with or without O_CREAT), Mkdir or Remove whose path      *)
(* passes through an existing regular file as an intermediate component    *)
(* fails with ENOTDIR, and the path of the error is that component.        *)
(***************************************************************************)
\* the shortest proper prefix of path that names a regular file, or <<>>
FilePrefix(ns, path) ==
    LET ks == { k \in 1..(Len(path) - 1) :
                  LET m == find(ns, Root, SubSeq(path, 1, k))
                  IN  m # NIL /\ ns[m].isFile }
    IN  IF ks = {} THEN <<>>
        ELSE SubSeq(path, 1, CHOOSE k \in ks : \A j \in ks : k <= j)

C20_ThroughFileIsENOTDIR ==
    \A t \in threads :
        ( /\ t \in threads /\ pc[t] = "idle" /\ res[t].op \in {"open", "mkdir", "remove"}
          /\ ValidPath(arg[t].path)
          /\ FilePrefix(pre[t].nodes, arg[t].path) # <<>> )
        => ( /\ res[t].err = "ENOTDIR"
             /\ res[t].path = FilePrefix(pre[t].nodes, arg[t].path) )

(***************************************************************************)
(* The finalizer.                                                          *)
(***************************************************************************)
\* C14: the finalizer passed to OpenWithFinalizer of ramfs, termfs and
\* semihostfs is invoked exactly once: not before the first Close of the
\* returned handle, once by that Close and never again, and once by an
\* OpenWithFinalizer that fails and returns no handle
C14_FinalizerRunsOnce ==
    /\ \A h \in HandleIds :
          handles[h].used => handles[h].fin = (IF handles[h].n = NIL THEN 1 ELSE 0)
    /\ \A d \in DevIds :
          dfiles[d].used => dfiles[d].fin = (IF dfiles[d].open THEN 0 ELSE 1)
    /\ \A t \in threads :
          (/\ \E op \in {"open", "term.open", "semi.open"} : Done(t, op)
           /\ res[t].err # "OK")
          => res[t].fin = 1

(***************************************************************************)
(* Handles after Close.                                                    *)
(***************************************************************************)
\* the call thread t made last has returned or has panicked
Ended(t, op) == t \in threads /\ pc[t] \in {"idle", "fault"} /\ res[t].op = op

\* C15: Close on a handle that was closed before returns EBADF and has no
\* other effect: the finalizer of a handle runs at most once, a Close that
\* returns nil is one that ran it, and any other Close returns EBADF, also
\* when two Close calls race
C15_SecondCloseIsEBADF ==
    /\ \A h \in HandleIds : handles[h].fin <= 1
    /\ \A t \in threads : Done(t, "close") =>
          \/ res[t].err = "OK" /\ res[t].fin = 1
          \/ res[t].err = "EBADF" /\ res[t].fin = 0 /\ handles[res[t].h].fin >= 1

\* C16: once Close has run on a ramfs handle (file.go, and the dir handle of
\* part_004), Read, Write and Stat on a file handle and Stat and ReadDir on a
\* dir handle return EBADF, change nothing and do not fault
C16_ClosedHandleIsEBADF ==
    \A t \in threads :
        (/\ threads = {t} /\ dirRev = "part_004"
         /\ \E op \in {"read", "write", "stat", "readdir"} : Ended(t, op)
         /\ pre[t].handles[res[t].h].fin >= 1)
        => /\ res[t].err = "EBADF"
           /\ pc[t] = "idle"
           /\ nodes = pre[t].nodes /\ size = pre[t].size /\ items = pre[t].items
           /\ handles = pre[t].handles

\* C18: across the ReadDir calls on one dir handle no directory entry is
\* returned twice, also when entries are created or removed in between
C18_ReadDirNeverRepeats ==
    \A h \in HandleIds :
        \A i, j \in 1..Len(handles[h].seen) :
            i # j => handles[h].seen[i] # handles[h].seen[j]

(***************************************************************************)
(* Reads among writes.                                                     *)
(***************************************************************************)
\* C19: a Read that runs while other threads write to the same file returns
\* the bytes that were in the file at one instant between whole Writes: the
\* bytes, from the handle's offset on, of the content the file had when the
\* Read took its locks, with no Write half applied
C19_ReadIsNotTorn ==
    [][\A t \in Threads :
          (pc[t] = "r_copy" /\ pc'[t] = "idle" /\ res'[t].err = "OK")
          => LET f == handles[arg[t].h]
             IN  /\ res'[t].n = Min(arg[t].k, loc[t].old.len - f.pos)
                 /\ res'[t].out = SubSeq(loc[t].old.buf, f.pos + 1, f.pos + res'[t].n)]_vars

\* a Read has returned bytes of a file that another thread is writing to
C19_Witness ==
    \E t, u \in threads :
        /\ t # u
        /\ Done(t, "read") /\ res[t].err = "OK" /\ Len(res[t].out) >= MaxWriteLen
        /\ pc[u] = "w_copy" /\ loc[u].i >= 1
        /\ handles[arg[u].h].n = handles[res[t].h].n
        /\ arg[u].h # res[t].h

(***************************************************************************)
(* The shape of the tree.                                                  *)
(***************************************************************************)
\* at most k nodes of the list that starts at e (a cyclic list is cut off)
RECURSIVE ListUpTo(_, _, _)
ListUpTo(ns, e, k) ==
    IF e = NIL \/ k = 0 THEN <<>> ELSE <<e>> \o ListUpTo(ns, ns[e].next, k - 1)

\* the list that starts at e ends within k nodes
RECURSIVE Ends(_, _, _)
Ends(ns, e, k) ==
    IF e = NIL THEN TRUE ELSE IF k = 0 THEN FALSE ELSE Ends(ns, ns[e].next, k - 1)

\* the places (directory, index) at which node n stands in a child list
Places(ns, n) ==
    { <<d, i>> \in NodeIds \X (1..Cardinality(NodeIds)) :
        /\ ns[d].alloc /\ ~ns[d].isFile
        /\ i <= Len(ListUpTo(ns, ns[d].list, Cardinality(NodeIds)))
        /\ ListUpTo(ns, ns[d].list, Cardinality(NodeIds))[i] = n }

\* the nodes below directory d, through at most k child lists
RECURSIVE Below(_, _, _)
Below(ns, S, k) ==
    IF k = 0 THEN {}
    ELSE LET kids == UNION { { ListUpTo(ns, ns[d].list, Cardinality(NodeIds))[i] :
                                 i \in 1..Len(ListUpTo(ns, ns[d].list, Cardinality(NodeIds))) } :
                             d \in { e \in S : ns[e].alloc /\ ~ns[e].isFile } }
         IN  kids \cup Below(ns, kids, k - 1)

\* C30: in every reachable state, under every interleaving of create, Mkdir,
\* Remove and Rename, every child list ends (it is finite and has no cycle),
\* a node stands at no more than one place of one child list, the root
\* stands in none, and no directory is below itself
C30_TreeIsWellFormed ==
    /\ \A d \in NodeIds : nodes[d].alloc => Ends(nodes, nodes[d].list, Cardinality(NodeIds))
    /\ \A n \in NodeIds : Cardinality(Places(nodes, n)) <= 1
    /\ Places(nodes, Root) = {}
    /\ \A d \in NodeIds : d \notin Below(nodes, {d}, Cardinality(NodeIds))

\* a Rename has moved a directory into another directory while a second
\* thread is in the middle of a call that changes the tree
C30_Witness ==
    \E t, u \in threads :
        /\ t # u
        /\ Done(t, "rename") /\ res[t].err = "OK" /\ Len(arg[t].newpath) = 2
        /\ find(nodes, Root, arg[t].newpath) # NIL
        /\ pc[u] \in {"m_link", "o_link", "r_items", "n_findDir", "n_link"}

(***************************************************************************)
(* semihostfs open modes.                                                  *)
(***************************************************************************)
\* C28: for a name that is none of ":stdin", ":stdout", ":stderr" the mode
\* passed to the host is 1 for O_RDONLY, 3 for O_RDWR, 7 for
\* O_RDWR|O_CREAT|O_TRUNC, 11 for O_RDWR|O_CREAT|O_APPEND, 5 for
\* O_WRONLY|O_CREAT|O_TRUNC and 9 for O_WRONLY|O_CREAT|O_APPEND
C28_HostModeTable ==
    \A t \in threads :
        (Done(t, "semi.open") /\ arg[t].path \notin {<<":stdin">>, <<":stdout">>, <<":stderr">>})
        => LET f == arg[t].flag
               m == res[t].n
           IN  /\ f = Flag(O_RDONLY, FALSE, FALSE, FALSE, FALSE) => m = 1
               /\ f = Flag(O_RDWR, FALSE, FALSE, FALSE, FALSE) => m = 3
               /\ f = Flag(O_RDWR, TRUE, FALSE, TRUE, FALSE) => m = 7
               /\ f = Flag(O_RDWR, TRUE, FALSE, FALSE, TRUE) => m = 11
               /\ f = Flag(O_WRONLY, TRUE, FALSE, TRUE, FALSE) => m = 5
               /\ f = Flag(O_WRONLY, TRUE, FALSE, FALSE, TRUE) => m = 9

(***************************************************************************)
(* LightFS.                                                                *)
(***************************************************************************)
\* thread t, the only one that runs, starts and ends a call of op in this step
Calls(t, op) ==
    /\ threads = {t} /\ pc[t] = "idle" /\ nops' = nops + 1
    /\ pc'[t] = "idle" /\ res'[t].op = op

\* C29: Read and Write of a LightFS handle hand the caller's whole buffer to
\* the reader and to the writer: a Write of a buffer that is not empty sends
\* all of it downstream and returns its length, and a Read into a buffer that
\* is not empty returns at least one of the bytes that are pending
C29_LightPassesWholeBuffer ==
    [][\A t \in Threads :
          /\ (Calls(t, "light.write") /\ Len(arg'[t].p) > 0)
             => /\ light'.out = light.out \o arg'[t].p
                /\ res'[t].n = Len(arg'[t].p)
          /\ (Calls(t, "light.read") /\ arg'[t].k > 0 /\ Len(light.in) > 0)
             => /\ res'[t].n >= 1
                /\ res'[t].out = SubSeq(light.in, 1, res'[t].n)]_vars


(***************************************************************************)
(* termfs: settings, raw reads and writes (SpecT).                         *)
(***************************************************************************)
\* the handle of the call thread t ends in this step can do the transfer:
\* it is open and was not opened for the other direction only
Usable(t, other) ==
    /\ dfiles[arg'[t].h].open
    /\ dfiles[arg'[t].h].flag.rdwr # other

\* C21: SetEcho(on) leaves the echo flag equal to on, Echo() answers with the
\* flag, and a raw Read writes the bytes it read to the terminal when the
\* flag is set and writes nothing when it is clear
C21_SetEchoSetsTheFlag ==
    [][\A t \in Threads :
          /\ Calls(t, "term.setecho") => (term'.echo <=> arg'[t].k = 1)
          /\ Calls(t, "term.echo") => (res'[t].n = 1 <=> term.echo)
          /\ (Calls(t, "term.read") /\ ~term.lineMode /\ res'[t].err = "OK")
             => term'.out = IF term.echo
                            THEN term.out \o write(res'[t].out, term.outLFCRLF).sent
                            ELSE term.out]_vars

\* p with "\r\n" in the place of every '\n'
RECURSIVE Expand(_)
Expand(p) ==
    IF p = <<>> THEN <<>>
    ELSE (IF Head(p) = LF THEN <<CR, LF>> ELSE <<Head(p)>>) \o Expand(Tail(p))

\* C22: with OutLFCRLF set and a writer that accepts every byte, a Write of a
\* buffer p that is not empty sends p with "\r\n" in the place of every '\n'
\* and returns len(p) and no error
C22_WriteExpandsLF ==
    [][\A t \in Threads :
          (/\ Calls(t, "term.write")
           /\ term.outLFCRLF
           /\ Usable(t, O_RDONLY)
           /\ Len(arg'[t].p) > 0)
          => /\ term'.out = term.out \o Expand(arg'[t].p)
             /\ res'[t].n = Len(arg'[t].p)
             /\ res'[t].err = "OK"]_vars

\* a Write of "\nh\n" with OutLFCRLF set has sent "\r\nh\r\n"
C22_Witness ==
    /\ res[1].op = "term.write" /\ res[1].err = "OK" /\ res[1].n = 3
    /\ arg[1].p = <<LF, 104, LF>>
    /\ term.outLFCRLF
    /\ term.out = <<CR, LF, 104, CR, LF>>

\* C27: while the line buffer has capacity 0 a Read is the raw one, also
\* after SetLineMode(true, 0) or SetLineMode(true, -1): it returns bytes of
\* the input as they are (with the character map applied) and never fails
\* with the line editor's error
C27_NoBufferMeansRaw ==
    [][\A t \in Threads :
          (/\ Calls(t, "term.read")
           /\ term.buf = <<>>
           /\ Usable(t, O_WRONLY)
           /\ arg'[t].k > 0)
          => /\ res'[t].err = "OK"
             /\ res'[t].n \in 1..arg'[t].k
             /\ res'[t].out = mapCR(SubSeq(term.in, 1, res'[t].n), term.inCRLF)
             /\ term'.in = SubSeq(term.in, res'[t].n + 1, Len(term.in))]_vars


(***************************************************************************)
(* termfs: the line editor (SpecE).                                        *)
(***************************************************************************)
\* text with c put in at column x, and with the byte before column x taken out
PutIn(text, x, c) == SubSeq(text, 1, x) \o <<c>> \o SubSeq(text, x + 1, Len(text))
TakeOut(text, x) == SubSeq(text, 1, x - 1) \o SubSeq(text, x + 1, Len(text))

\* the line that the keys in bytes make of text with the cursor at column x:
\* printable bytes go in at the cursor, backspace and DEL take out the byte
\* before it, ESC[C, ESC[D, ESC[H and ESC[F move it, and the '\n' that ends
\* the keys goes to the end of the line; <<>> for any other bytes
RECURSIVE Edited(_, _, _)
Edited(bytes, text, x) ==
    IF bytes = <<>> THEN <<>>
    ELSE LET c == Head(bytes)
             rest == Tail(bytes)
         IN  IF c = LF THEN (IF rest = <<>> THEN text \o <<LF>> ELSE <<>>)
             ELSE IF c = BS \/ c = DEL
             THEN (IF x = 0 THEN Edited(rest, text, x)
                   ELSE Edited(rest, TakeOut(text, x), x - 1))
             ELSE IF c = esc
             THEN (IF Len(rest) < 2 \/ rest[1] # chBracket THEN <<>>
                   ELSE LET k == rest[2]
                            after == SubSeq(rest, 3, Len(rest))
                        IN  IF k = chC THEN Edited(after, text, Min(x + 1, Len(text)))
                            ELSE IF k = chD THEN Edited(after, text, Max(x - 1, 0))
                            ELSE IF k = chH THEN Edited(after, text, 0)
                            ELSE IF k = chF THEN Edited(after, text, Len(text))
                            ELSE <<>>)
             ELSE IF c >= SP /\ c < DEL THEN Edited(rest, PutIn(text, x, c), x + 1)
             ELSE <<>>

\* C23: in cooked mode, when the editor has read printable bytes, backspaces,
\* DELs, ESC[C, ESC[D, ESC[H and ESC[F ended by '\n', the bytes the Reads
\* return for that line are the edited line followed by '\n': what has been
\* returned so far is its beginning, and all of it once the line is delivered
C23_ReadsDeliverEditedLine ==
    (term.lineMode /\ Edited(term.used, <<>>, 0) # <<>>)
    => LET line == Edited(term.used, <<>>, 0)
       IN  /\ Len(term.got) <= Len(line)
           /\ term.got = SubSeq(line, 1, Len(term.got))
           /\ term.rpos = Len(term.got) \/ (term.rpos = -1 /\ term.got = line)

\* the keys h, ESC[D, !, '\n' were read and three Reads of one byte have
\* returned "!h\n"
C23_Witness ==
    /\ term.used = <<104, esc, chBracket, chD, 33, LF>>
    /\ term.got = <<33, 104, LF>>
    /\ term.rpos = -1
    /\ arg[1].k = 1 /\ res[1].op = "term.read" /\ res[1].out = <<LF>>


\* thread t ends a Read in this step that the line editor serves: line mode
\* is on, the buffer is not empty and the handle is open and readable
CookedRead(t) ==
    /\ Calls(t, "term.read")
    /\ term.lineMode
    /\ Usable(t, O_WRONLY)
    /\ arg'[t].k > 0

\* the input bytes the step takes from the terminal
Consumed == SubSeq(term.in, 1, Len(term.in) - Len(term'.in))

\* ^D is the last byte the editor read for the line and the keys before it
\* are keys of C23; Typed is the line they make, without a '\n'
EndsInEOT ==
    /\ term.used # <<>>
    /\ term.used[Len(term.used)] = EOT
    /\ Edited(SubSeq(term.used, 1, Len(term.used) - 1) \o <<LF>>, <<>>, 0) # <<>>
Typed ==
    LET line == Edited(SubSeq(term.used, 1, Len(term.used) - 1) \o <<LF>>, <<>>, 0)
    IN  SubSeq(line, 1, Len(line) - 1)

\* C24: ^D ends the line without a '\n': the Reads return the bytes typed
\* before it and nothing else, then one Read returns 0 bytes and io.EOF and
\* takes no input, and after it the editor is at the start of an empty line
\* with no end of file pending; no other Read returns io.EOF
C24_EndOfFileOnce ==
    /\ []((term.lineMode /\ EndsInEOT)
          => /\ Len(term.got) <= Len(Typed)
             /\ term.got = SubSeq(Typed, 1, Len(term.got))
             /\ term.rpos = Len(term.got) \/ (term.rpos = -1 /\ term.got = Typed)
             /\ term.eof \/ \E t \in threads : res[t].err = "EOF")
    /\ [][\A t \in Threads :
             CookedRead(t)
             => /\ res'[t].err = "EOF" <=> (term.eof /\ term.rpos < 0)
                /\ res'[t].err = "EOF"
                   => /\ res'[t].n = 0 /\ Consumed = <<>>
                      /\ ~term'.eof /\ term'.len = 0 /\ term'.rpos = -1
                /\ (term'.eof /\ ~term.eof)
                   => (Consumed # <<>> /\ Consumed[Len(Consumed)] = EOT)]_vars

\* h and ^D were read, a Read returned "h" and the next Read returned io.EOF
C24_Witness ==
    /\ term.used = <<104, EOT>>
    /\ term.got = <<104>>
    /\ res[1].op = "term.read" /\ res[1].err = "EOF" /\ res[1].n = 0
    /\ ~term.eof /\ term.rpos = -1 /\ term.len = 0

\* C25: the Read that reads ^C, and no other, returns 0 bytes and ECANCELED;
\* it leaves the line empty and the editor at the start of a new line
C25_CancelDiscardsLine ==
    [][\A t \in Threads :
          CookedRead(t)
          => /\ res'[t].err = "ECANCELED"
                <=> (Consumed # <<>> /\ Consumed[Len(Consumed)] = ETX)
             /\ res'[t].err = "ECANCELED"
                => /\ res'[t].n = 0 /\ res'[t].out = <<>>
                   /\ term'.len = 0 /\ term'.rpos = -1 /\ ~term'.eof]_vars

\* h, ! and ^C were read: the Read returned ECANCELED and the line is empty
C25_Witness ==
    /\ term.used = <<104, 33, ETX>>
    /\ res[1].op = "term.read" /\ res[1].err = "ECANCELED" /\ res[1].n = 0
    /\ term.len = 0 /\ term.rpos = -1

\* the lengths j below cap for which the input starts with j printable bytes
\* and a '\n'
PlainLines(input, cap) ==
    { j \in 0..(cap - 1) :
         /\ Len(input) > j
         /\ input[j + 1] = LF
         /\ \A i \in 1..j : input[i] >= SP /\ input[i] < DEL }

RoundedUp(k, m) == CHOOSE c \in k..(k + m - 1) : c % m = 0

RECURSIVE Passes(_)
Passes(s) ==
    IF s.ret # "run" THEN {}
    ELSE IF s.tm.rpos >= 0 \/ lineFull(s.tm) \/ s.tm.in = <<>> THEN {s}
    ELSE {s} \cup Passes(editKey(s))

\* the editor as a Read starts it: the cursor at column 0
Started == [tm |-> term, x |-> 0, ret |-> "run"]

\* C32: in cooked mode the cursor and the line satisfy
\* 0 <= x <= len(line) <= cap(line) between any two input bytes, whatever the
\* keys are and whatever the Reads before have returned
C32_CursorWithinLine ==
    term.lineMode
    => \A e \in Passes(Started) :
          /\ 0 <= e.x
          /\ e.x <= e.tm.len
          /\ e.tm.len <= Len(e.tm.buf)

\* a Read has returned ECANCELED and the keys typed since put the cursor
\* inside a line of two bytes
C32_Witness ==
    /\ term.lineMode
    /\ res[1].op = "term.read" /\ res[1].err = "ECANCELED"
    /\ \E e \in Passes(Started) : 0 < e.x /\ e.x < e.tm.len


\* C33: a cooked Read that returns an error of the line editor leaves the
\* line empty, so that the next Read starts a new line
C33_ErrorClearsLine ==
    [][\A t \in Threads :
          (CookedRead(t) /\ res'[t].err \notin {"OK", "EOF"})
          => term'.len = 0]_vars


\* text is a line of printable bytes that is not empty
PrintableLine(text) ==
    /\ text # <<>>
    /\ \A i \in 1..Len(text) : text[i] >= SP /\ text[i] < DEL

\* the pending input starts with the key ESC [ c
NextKeyIs(input, c) ==
    /\ Len(input) >= 3
    /\ SubSeq(input, 1, 3) = <<esc, chBracket, c>>

\* the editor in state a holds the line text with the cursor at its end,
\* and has echoed text since the output was out
Restored(a, text, out) ==
    /\ a.tm.len = Len(text)
    /\ SubSeq(a.tm.buf, 1, Len(text)) = text
    /\ a.x = Len(text)
    /\ a.tm.out = out \o text

\* the line that the last Reads have delivered, when '\n' or ^D finished it
Delivered ==
    IF term.used[Len(term.used)] = LF THEN SubSeq(term.got, 1, Len(term.got) - 1)
    ELSE term.got

\* the previous line was finished by '\n' or by ^D and is delivered, the
\* current line is empty, and the next key is ESC[A
UpAfterLine ==
    /\ term.lineMode /\ term.echo
    /\ term.len = 0 /\ term.rpos = -1 /\ ~term.eof
    /\ term.used # <<>>
    /\ term.used[Len(term.used)] \in {LF, EOT}
    /\ PrintableLine(Delivered)
    /\ NextKeyIs(term.in, chA)

\* C34: with echo on and the current line empty, ESC[A brings back the
\* previous line L of printable bytes, with the cursor at len(L), and echoes
\* the bytes of L, when L was finished by '\n' or by ^D, and when the key
\* before was the ESC[B that cleared L
C34_UpRestoresLine ==
    /\ UpAfterLine => Restored(editKey(Started), Delivered, term.out)
    /\ (term.lineMode /\ term.echo)
       => \A e \in Passes(Started) :
             (/\ e.tm.rpos < 0
              /\ e.tm.len < Len(e.tm.buf)
              /\ PrintableLine(SubSeq(e.tm.buf, 1, e.tm.len))
              /\ NextKeyIs(e.tm.in, chB)
              /\ NextKeyIs(SubSeq(e.tm.in, 4, Len(e.tm.in)), chA))
             => Restored(editKey(editKey(e)), SubSeq(e.tm.buf, 1, e.tm.len),
                         editKey(e).tm.out)

(***************************************************************************)
(* C35: every path of termfs that holds both mutexes takes rlock before    *)
(* wlock, no path takes rlock while it holds wlock, each mutex has one     *)
(* holder at most, and no two calls wait for each other: a call that       *)
(* waits for a mutex waits for a call that can go on.                      *)
(***************************************************************************)
\* the mutex the next step of thread t takes
Wants(t) ==
    IF pc[t] = "tc_1" THEN closeOrder[2]
    ELSE IF pc[t] = "tm_r" \/ pc[t] = "tr_e" THEN "wlock"
    ELSE IF pc[t] = "tr_r" /\ EchoesNext(t) THEN "wlock"
    ELSE "none"
Waits(t, u) == t # u /\ Holds(u, Wants(t))
C35_RlockBeforeWlock ==
    /\ [](\A t, u \in threads :
             /\ \A lock \in {"rlock", "wlock"} : Holds(t, lock) /\ Holds(u, lock) => t = u
             /\ ~(Waits(t, u) /\ Waits(u, t)))
    /\ [][\A t \in threads :
             HoldsAt(pc'[t], "rlock") /\ ~HoldsAt(pc[t], "rlock")
                 => ~HoldsAt(pc[t], "wlock")]_vars
\* a cooked Read under rlock is to echo a key while a Write holds wlock
C35_Witness ==
    \E t, u \in threads :
        /\ pc[t] = "tr_r" /\ EchoesNext(t)
        /\ pc[u] = "tw_w"
        /\ Waits(t, u)

(***************************************************************************)
(* C36: ramfs takes the mutex of a handle before the lock of a node, and   *)
(* no call takes the lock of a node while it holds the lock of the         *)
(* directory the node is in; find, ReadDir, Remove and Rename.             *)
(***************************************************************************)
\* node n is an entry of directory p
EntryOf(n, p) == p # NIL /\ \E i \in 1..Len(ListOf(nodes, nodes[p].list)) :
                               ListOf(nodes, nodes[p].list)[i] = n
C36_ParentLockNotHeld ==
    [][\A t \in threads :
          /\ \A n \in ReadHeldAt(pc'[t], loc'[t]) \ ReadHeldAt(pc[t], loc[t]) :
                \A p \in ReadHeldAt(pc[t], loc[t]) : ~EntryOf(n, p)
          /\ (pc'[t] = "rd_h" /\ pc[t] # "rd_h") => ReadHeldAt(pc[t], loc[t]) = {}]_vars

(***************************************************************************)
(* C37: a close, seek, write or flen of semihostfs that fails asks for the *)
(* errno inside the critical section of mt that made the call: the errno   *)
(* it returns is the one its own call set, and between the call and the    *)
(* query no other thread makes a host call.                                *)
(***************************************************************************)
C37_ErrnoIsOwn ==
    [][\A t \in threads :
          MtHeldAt(pc[t]) =>
              /\ pc'[t] = "idle" => res'[t].n = loc[t].i
              /\ pc'[t] = pc[t] =>
                    /\ host' = host /\ dfiles' = dfiles
                    /\ \A u \in threads :
                          pc'[u] # pc[u] => pc[u] # "so_err" /\ pc'[u] # "so_err"]_vars

(***************************************************************************)
(* C40: the read of a ReadAt(p, off) and the write of a WriteAt(p, off) of *)
(* semihostfs start at offset off of the descriptor, and a ReadAt returns  *)
(* the bytes of the file from off on, also with other calls on the handle. *)
(***************************************************************************)
\* the offset of the ReadAt or WriteAt of thread t
OffsetOf(t) == IF pc[t] = "sa_read" THEN arg[t].p[1] ELSE arg[t].k
C40_AtReadsAtOffset ==
    [][\A t \in threads :
          (pc[t] \in {"sa_read", "sa_write"} /\ pc'[t] # pc[t] /\ dfiles[arg[t].h].open)
              => /\ host.pos[arg[t].h] = OffsetOf(t)
                 /\ pc[t] = "sa_read" =>
                       res'[t].out = SubSeq(host.data, OffsetOf(t) + 1,
                                            OffsetOf(t) + res'[t].n)]_vars

(***************************************************************************)
(* C39: a create, a Mkdir or a growing Write of ramfs fails with ENOSPC    *)
(* only when used_bytes without the charges that are being rolled back,    *)
(* plus its own charge, is above max_bytes.                                *)
(***************************************************************************)
\* the charge that thread u has added and is to take back
Pending(u) ==
    IF pc[u] = "o_rollback" THEN emptyFileSize
    ELSE IF pc[u] = "m_rollback" THEN dirSize
    ELSE IF pc[u] = "w_rollback" THEN loc[u].add
    ELSE 0
RECURSIVE PendingOf(_)
PendingOf(ts) ==
    IF ts = {} THEN 0
    ELSE LET u == CHOOSE v \in ts : TRUE IN Pending(u) + PendingOf(ts \ {u})
C39_NoSpaceOnlyForOwnCharge ==
    [][\A t \in threads :
          /\ (pc[t] = "o_charge" /\ pc'[t] = "o_rollback")
                => size - PendingOf(threads) + emptyFileSize > maxSize
          /\ (pc[t] = "m_charge" /\ pc'[t] = "m_rollback")
                => size - PendingOf(threads) + dirSize > maxSize
          /\ (pc[t] = "idle" /\ pc'[t] = "w_rollback")
                => size - PendingOf(threads) + loc'[t].add > maxSize]_vars

(***************************************************************************)
(* C38: no interleaving of the calls of ramfs deadlocks; under fair        *)
(* scheduling every call that has started returns.                         *)
(***************************************************************************)
C38_EveryCallReturns == \A t \in Threads : (pc[t] # "idle") ~> (pc[t] = "idle")
\* the same of the calls that do not panic: a call that has started returns
\* or panics
C38_ReturnsOrPanics == \A t \in Threads : (pc[t] # "idle") ~> (pc[t] \in {"idle", "fault"})

====
